---- MODULE Spec2Model ----
(***************************************************************************)
(* A model of SqliteAdapter (src/SqliteAdapter.js): the migration          *)
(* pipeline, the index reconciliation of indexes(table), the transaction   *)
(* coordinator executeInTransaction and the result normalisation of        *)
(* execute.  The embedded engine is modelled by what its statements do to  *)
(* the catalog (tables, columns, indexes, the migrations ledger).          *)
(***************************************************************************)
EXTENDS Integers, Sequences, FiniteSets, TLC

VARIABLES
    tables,             \* engine catalog: table name -> sequence of columns (<<>> = no such table)
    hasLedger,          \* engine catalog: the migrations table exists
    ledger,             \* rows of the migrations table, in insertion order
    dbIndexes,          \* engine catalog: set of index records
    supportMigrations,  \* SqliteAdapter.supportMigrations (static flag)
    run,                \* per call: the closure state of migrate / indexes(table).create
    faults,             \* engine failures still to be injected
    applied,            \* history: (appliesTo, version) pairs whose migrate call succeeded
    rawConnection,      \* this.rawConnection (0 = null)
    transaction,        \* this.transaction is set
    engineTx,           \* the engine has a transaction open
    calls,              \* executeInTransaction calls: call id -> frame
    txLog,              \* BEGIN / COMMIT / ROLLBACK statements issued, with the issuing call
    rows,               \* the result the engine hands to execute's callback
    returned,           \* what execute's callback received
    connections,        \* the sqlite3.Database objects created so far, with their state
    views,              \* engine catalog: the names of the views
    formatted,          \* formatType: the field definition and the text returned for it
    increments          \* rows of increment_id for one (entity, attribute), in insertion order

dbVars == <<tables, hasLedger, ledger, dbIndexes, supportMigrations, run, faults, applied>>
txVars == <<rawConnection, transaction, engineTx, calls, txLog>>
exVars == <<rows, returned, connections, views, formatted, increments>>
vars == <<tables, hasLedger, ledger, dbIndexes, supportMigrations, run, faults, applied,
          rawConnection, transaction, engineTx, calls, txLog, rows, returned,
          connections, views, formatted, increments>>

(***************************************************************************)
(* Bounds                                                                  *)
(***************************************************************************)
NumProcs == 2
MaxLedger == 2
MaxFaults == 1
MaxCalls == 4
MaxRows == 2

Procs == 1..NumProcs

(***************************************************************************)
(* JavaScript values                                                       *)
(***************************************************************************)
NoError == "none"
EngineError == "SQLITE_ERROR"
FullMigrationError == "Full table migration is not yet implemented."
InvalidStatusError == "Invalid table status."
InvalidColumnsError == "Invalid parameter. Columns parameter must be a string or an array of strings."
TypeErrorThrown == "TypeError: self.escapeName is not a function"

\* code units of the characters that occur in version strings
CharCode(c) ==
    CASE c = "." -> 46
      [] c = "0" -> 48
      [] c = "1" -> 49
      [] c = "2" -> 50
      [] c = "3" -> 51
      [] c = "4" -> 52
      [] c = "5" -> 53
      [] c = "6" -> 54
      [] c = "7" -> 55
      [] c = "8" -> 56
      [] c = "9" -> 57

\* a < b for two strings (sequences of characters), as JavaScript and the
\* engine's BINARY collation compare them: code unit by code unit
RECURSIVE StrLess(_, _)
StrLess(a, b) ==
    IF b = <<>> THEN FALSE
    ELSE IF a = <<>> THEN TRUE
    ELSE IF CharCode(Head(a)) < CharCode(Head(b)) THEN TRUE
    ELSE IF CharCode(Head(a)) > CharCode(Head(b)) THEN FALSE
    ELSE StrLess(Tail(a), Tail(b))

\* a > b
StrGT(a, b) == StrLess(b, a)

\* a >= b : false exactly when a < b (both operands are strings)
StrGE(a, b) == ~StrLess(a, b)

V00 == <<"0", ".", "0">>
V10 == <<"1", ".", "0">>
V20 == <<"2", ".", "0">>

\* String.prototype.toUpperCase on the type texts the catalog can hold
ToUpperCase(s) ==
    CASE s = "text" -> "TEXT"
      [] s = "integer" -> "INTEGER"
      [] OTHER -> s

\* ToNumber(array) of the relational comparison `array > 0`: the array is
\* converted to the string of its joined elements; "" converts to 0, and the
\* text of one or more objects ("[object Object]", ...) is not a number
ArrayToNumber(arr) ==
    IF Len(arr) = 0 THEN [isNaN |-> FALSE, value |-> 0]
    ELSE [isNaN |-> TRUE, value |-> 0]

\* `array > 0`: a comparison with NaN is false
ArrayGtZero(arr) == LET n == ArrayToNumber(arr) IN ~n.isNaN /\ n.value > 0

RemoveAt(s, i) == SubSeq(s, 1, i - 1) \o SubSeq(s, i + 1, Len(s))

(***************************************************************************)
(* Type mapper: SqliteAdapter.formatType                                   *)
(* A field is [name, type, size, scale, nullable, primary, oneToMany];     *)
(* size/scale 0 stand for an absent (falsy) member, nullable is            *)
(* "undefined", "true" or "false".                                         *)
(***************************************************************************)
Sized(word, a, b) == word \o "(" \o ToString(a) \o "," \o ToString(b) \o ")"

\* the variant that passes the name of the logical type on as the type word
BaseTypeAsNamed(field) == [word |-> field.type, args |-> <<>>]

\* the type text `s` of formatType, as the type word and its (size,scale) part
BaseType(field) ==
    LET size == field.size
    IN CASE field.type \in {"Boolean", "Byte"} -> [word |-> "INTEGER", args |-> <<1, 0>>]
         [] field.type \in {"Number", "Float"} -> [word |-> "REAL", args |-> <<>>]
         [] field.type = "Counter" -> [word |-> "INTEGER", args |-> <<>>]
         [] field.type = "Currency" ->
                [word |-> "NUMERIC", args |-> <<(IF field.size # 0 THEN field.size ELSE 19), 4>>]
         [] field.type = "Decimal" ->
                [word |-> "NUMERIC",
                 args |-> IF field.size # 0 /\ field.scale # 0
                          THEN <<field.size, field.scale>> ELSE <<>>]
         [] field.type \in {"Date", "DateTime", "Long"} -> [word |-> "NUMERIC", args |-> <<>>]
         [] field.type = "Time" ->
                [word |-> "TEXT", args |-> IF size > 0 THEN <<size, 0>> ELSE <<>>]
         [] field.type = "Duration" ->
                [word |-> "TEXT", args |-> IF size > 0 THEN <<size, 0>> ELSE <<48, 0>>]
         [] field.type = "Integer" ->
                [word |-> "INTEGER", args |-> IF field.size # 0 THEN <<field.size, 0>> ELSE <<>>]
         [] field.type \in {"URL", "Text", "Note"} ->
                [word |-> "TEXT", args |-> IF field.size # 0 THEN <<field.size, 0>> ELSE <<>>]
         [] field.type \in {"Image", "Binary"} -> [word |-> "BLOB", args |-> <<>>]
         [] field.type = "Guid" -> [word |-> "TEXT", args |-> <<36, 0>>]
         [] field.type = "Short" -> [word |-> "INTEGER", args |-> <<2, 0>>]
         [] OTHER -> [word |-> "INTEGER", args |-> <<>>]

\* the nullability suffix of a field that is not a primary key
NullableSuffix(field) ==
    IF field.nullable = "undefined" THEN " NULL"
    ELSE IF field.nullable = "true" THEN " NULL"
    ELSE " NOT NULL"

\* the variant that appends the nullability suffix to a primary key as well
TypeSuffixWithNullable(field) ==
    IF field.type = "Counter" THEN " PRIMARY KEY AUTOINCREMENT NOT NULL"
    ELSE IF field.primary THEN " PRIMARY KEY NOT NULL" \o NullableSuffix(field)
    ELSE NullableSuffix(field)

\* the variant that looks at primary before the type
TypeSuffixPrimaryFirst(field) ==
    IF field.primary THEN " PRIMARY KEY NOT NULL"
    ELSE IF field.type = "Counter" THEN " PRIMARY KEY AUTOINCREMENT NOT NULL"
    ELSE NullableSuffix(field)

\* the text appended to the type text
TypeSuffix(field) ==
    IF field.type = "Counter" THEN " PRIMARY KEY AUTOINCREMENT NOT NULL"
    ELSE IF field.primary THEN " PRIMARY KEY NOT NULL"
    ELSE IF field.nullable = "undefined" THEN " NULL"
    ELSE IF field.nullable = "true" THEN " NULL"
    ELSE " NOT NULL"

TypeText(word, args) == IF args = <<>> THEN word ELSE Sized(word, args[1], args[2])

formatType(field) ==
    LET b == BaseType(field) IN TypeText(b.word, b.args) \o TypeSuffix(field)

\* format('%t', x)
formatT(x) == formatType(x)

(***************************************************************************)
(* The engine: what a statement does to the catalog                        *)
(* A catalog column is [name, word, args, notnull, pk]: the declared type  *)
(* text is TypeText(word, args).                                           *)
(***************************************************************************)
TableNames == {"T"}

\* the column the engine records for the column definition `"%f" %t` of x
ColumnDef(x) ==
    LET b == BaseType(x)
        sfx == TypeSuffix(x)
    IN [name |-> x.name, word |-> b.word, args |-> b.args,
        notnull |-> IF sfx \in {" NOT NULL", " PRIMARY KEY NOT NULL",
                                " PRIMARY KEY AUTOINCREMENT NOT NULL"} THEN 1 ELSE 0,
        pk |-> IF sfx \in {" PRIMARY KEY NOT NULL",
                           " PRIMARY KEY AUTOINCREMENT NOT NULL"} THEN 1 ELSE 0]

ColumnDefs(fields) == [i \in 1..Len(fields) |-> ColumnDef(fields[i])]

Names(seq) == {seq[i].name : i \in 1..Len(seq)}

TableExistsIn(tbls, t) == t \in DOMAIN tbls /\ tbls[t] # <<>>

\* CREATE TABLE "t" (defs): fails when the table exists, when there is no
\* column definition, on a repeated column name and on a second PRIMARY KEY
CreateTableOk(tbls, t, defs) ==
    /\ ~TableExistsIn(tbls, t)
    /\ Len(defs) > 0
    /\ \A i, j \in 1..Len(defs) : i # j => defs[i].name # defs[j].name
    /\ Cardinality({i \in 1..Len(defs) : defs[i].pk = 1}) <= 1

\* ALTER TABLE "t" ADD COLUMN def: fails when the table is absent, on a
\* duplicate column name, for a PRIMARY KEY column and for a NOT NULL column
\* (no default value is given)
AddColumnOk(tbls, t, def) ==
    /\ TableExistsIn(tbls, t)
    /\ def.name \notin Names(tbls[t])
    /\ def.pk = 0
    /\ def.notnull = 0

\* PRAGMA table_info(t): one row per column, none for an absent table
TableInfo(tbls, t) ==
    IF t \in DOMAIN tbls
    THEN [i \in 1..Len(tbls[t]) |->
            [name |-> tbls[t][i].name, cid |-> i - 1,
             type |-> TypeText(tbls[t][i].word, tbls[t][i].args),
             args |-> tbls[t][i].args,
             notnull |-> tbls[t][i].notnull, pk |-> tbls[t][i].pk]]
    ELSE <<>>

\* SELECT MAX(version) FROM migrations WHERE appliesTo = t, <<>> for NULL
RECURSIVE MaxVersionOf(_, _, _)
MaxVersionOf(rws, t, best) ==
    IF rws = <<>> THEN best
    ELSE LET r == Head(rws)
         IN MaxVersionOf(Tail(rws), t,
                IF r.appliesTo = t /\ (best = <<>> \/ StrLess(best, r.version))
                THEN r.version ELSE best)

MaxVersion(rws, t) == MaxVersionOf(rws, t, <<>>)

(***************************************************************************)
(* Schema introspector: table(name).columns and table(name).version        *)
(***************************************************************************)
\* the iterator of table(name).columns over the rows of PRAGMA table_info;
\* size and scale 0 stand for an absent member
columns(info) ==
    [i \in 1..Len(info) |->
        LET x == info[i]
            matches == x.args # <<>>
        IN [name |-> x.name, ordinal |-> x.cid, type |-> x.type,
            nullable |-> (x.notnull # 0), primary |-> (x.pk = 1),
            size |-> IF matches /\ x.args[1] > 0 THEN x.args[1] ELSE 0,
            scale |-> IF matches /\ x.args[2] > 0 THEN x.args[2] ELSE 0]]

\* table(name).version: result[0].version || '0.0'
version(rws, name) ==
    LET v == MaxVersion(rws, name) IN IF v = <<>> THEN V00 ELSE v

(***************************************************************************)
(* Migration descriptors                                                   *)
(* absent names the optional members the descriptor does not carry.        *)
(***************************************************************************)
Field(name, type, size, nullable, primary) ==
    [name |-> name, type |-> type, size |-> size, scale |-> 0,
     nullable |-> nullable, primary |-> primary, oneToMany |-> FALSE]

fA == Field("A", "Counter", 0, "undefined", TRUE)
fB == Field("B", "Text", 0, "undefined", FALSE)
fC == Field("C", "Integer", 0, "undefined", FALSE)
fBi == Field("B", "Integer", 0, "undefined", FALSE)
fDnn == Field("D", "Text", 120, "false", FALSE)
fMany == [Field("M", "Integer", 0, "undefined", FALSE) EXCEPT !.oneToMany = TRUE]

Ix(name, cols) == [name |-> name, columns |-> [kind |-> "array", items |-> cols]]

Descriptor(ver, add, change, remove, indexes, absent) ==
    [appliesTo |-> "T", version |-> ver, model |-> "TModel", description |-> "T migration",
     add |-> add, change |-> change, remove |-> remove, indexes |-> indexes,
     absent |-> absent, updated |-> FALSE]

Descriptors ==
    { Descriptor(V10, <<fA, fB>>, <<>>, <<>>, <<>>, {"change", "remove", "indexes"}),
      Descriptor(V20, <<fC>>, <<>>, <<>>, <<>>, {"change", "remove", "indexes"}),
      Descriptor(V20, <<>>, <<fBi>>, <<>>, <<>>, {"remove", "indexes"}),
      Descriptor(V20, <<>>, <<>>, <<[name |-> "B"]>>, <<>>, {"change", "indexes"}),
      Descriptor(V20, <<fA, fB>>, <<>>, <<[name |-> "A"], [name |-> "Z"]>>,
                 <<Ix("ix1", <<"B">>)>>, {"change"}),
      Descriptor(V20, <<fBi, fC>>, <<>>, <<>>, <<>>, {"change", "remove"}),
      Descriptor(V20, <<fC>>, <<fDnn>>, <<>>, <<Ix("ix1", <<"C">>)>>, {"remove"}) }

Has(migration, member) == member \notin migration.absent

(***************************************************************************)
(* Stage 5 of migrate, alter path: the three validation loops              *)
(***************************************************************************)
\* columns.findIndex / columns.find by name: 0 when there is none
FindIndex(cols, name) ==
    IF \E i \in 1..Len(cols) : cols[i].name = name
    THEN CHOOSE i \in 1..Len(cols) :
            cols[i].name = name /\ \A j \in 1..(i - 1) : cols[j].name # name
    ELSE 0

oldTypeOf(column) ==
    ToUpperCase(column.type) \o (IF column.nullable THEN " NOT NULL" ELSE " NULL")

\* for (i = 0; i < migration.remove.length; i++) { ... }
RECURSIVE RemoveLoop(_, _, _, _)
RemoveLoop(remove, i, cols, forceAlter) ==
    IF i > Len(remove) THEN [remove |-> remove, forceAlter |-> forceAlter]
    ELSE LET colIndex == FindIndex(cols, remove[i].name)
         IN IF colIndex > 0
            THEN IF ~cols[colIndex].primary
                 THEN RemoveLoop(remove, i + 1, cols, TRUE)
                 ELSE RemoveLoop(RemoveAt(remove, i), i, cols, forceAlter)
            ELSE RemoveLoop(RemoveAt(remove, i), i, cols, forceAlter)

\* for (i = 0; i < migration.change.length; i++) { ... }
RECURSIVE ChangeLoop(_, _, _, _, _)
ChangeLoop(change, add, i, cols, forceAlter) ==
    IF i > Len(change) THEN [change |-> change, add |-> add, forceAlter |-> forceAlter]
    ELSE LET x == change[i]
             k == FindIndex(cols, x.name)
         IN IF k > 0
            THEN IF ~cols[k].primary
                 THEN ChangeLoop(change, add, i + 1, cols,
                                 forceAlter \/ (formatT(x) # oldTypeOf(cols[k])))
                 ELSE ChangeLoop(RemoveAt(change, i), add, i, cols, forceAlter)
            ELSE ChangeLoop(RemoveAt(change, i), Append(add, x), i, cols, forceAlter)

\* the add loop with the entry of an absent column spliced out as well
RECURSIVE AddLoopSplicesNew(_, _, _, _)
AddLoopSplicesNew(add, i, cols, forceAlter) ==
    IF i > Len(add) THEN [add |-> add, forceAlter |-> forceAlter]
    ELSE LET x == add[i]
             k == FindIndex(cols, x.name)
         IN IF k > 0
            THEN IF cols[k].primary
                 THEN AddLoopSplicesNew(RemoveAt(add, i), i, cols, forceAlter)
                 ELSE IF formatT(x) = oldTypeOf(cols[k])
                      THEN AddLoopSplicesNew(RemoveAt(add, i), i, cols, forceAlter)
                      ELSE AddLoopSplicesNew(add, i + 1, cols, TRUE)
            ELSE AddLoopSplicesNew(RemoveAt(add, i), i, cols, forceAlter)

\* the add loop that drops an entry whose type differs from the live column
RECURSIVE AddLoopDropsMismatch(_, _, _, _)
AddLoopDropsMismatch(add, i, cols, forceAlter) ==
    IF i > Len(add) THEN [add |-> add, forceAlter |-> forceAlter]
    ELSE LET x == add[i]
             k == FindIndex(cols, x.name)
         IN IF k > 0
            THEN AddLoopDropsMismatch(RemoveAt(add, i), i, cols, forceAlter)
            ELSE AddLoopDropsMismatch(add, i + 1, cols, forceAlter)

\* for (i = 0; i < migration.add.length; i++) { ... }
RECURSIVE AddLoop(_, _, _, _)
AddLoop(add, i, cols, forceAlter) ==
    IF i > Len(add) THEN [add |-> add, forceAlter |-> forceAlter]
    ELSE LET x == add[i]
             k == FindIndex(cols, x.name)
         IN IF k > 0
            THEN IF cols[k].primary
                 THEN AddLoop(RemoveAt(add, i), i, cols, forceAlter)
                 ELSE IF formatT(x) = oldTypeOf(cols[k])
                      THEN AddLoop(RemoveAt(add, i), i, cols, forceAlter)
                      ELSE AddLoop(add, i + 1, cols, TRUE)
            ELSE AddLoop(add, i + 1, cols, forceAlter)

\* if (Array.isArray(migration.remove)) { if (migration.remove > 0) { loop } }
RemoveGuard(migration) == Has(migration, "remove") /\ ArrayGtZero(migration.remove)

\* if (Array.isArray(migration.change)) { if (migration.change > 0) { loop } }
ChangeGuard(migration) == Has(migration, "change") /\ ArrayGtZero(migration.change)

\* the validation of the alter path: the descriptor as the loops leave it,
\* forceAlter, whether the stage fails, and the fields to add
Reconcile(migration, cols) ==
    LET r1 == IF RemoveGuard(migration)
              THEN RemoveLoop(migration.remove, 1, cols, FALSE)
              ELSE [remove |-> migration.remove, forceAlter |-> FALSE]
        r2 == IF ChangeGuard(migration)
              THEN ChangeLoop(migration.change, migration.add, 1, cols, r1.forceAlter)
              ELSE [change |-> migration.change, add |-> migration.add,
                    forceAlter |-> r1.forceAlter]
        r3 == AddLoop(r2.add, 1, cols, r2.forceAlter)
    IN [migration |-> [migration EXCEPT !.remove = r1.remove, !.change = r2.change,
                                        !.add = r3.add],
        forceAlter |-> r3.forceAlter,
        failed |-> r3.forceAlter,
        expressions |-> IF r3.forceAlter THEN <<>> ELSE r3.add]

(***************************************************************************)
(* The closure state of one migrate / indexes(table).create call           *)
(***************************************************************************)
NoMigration == Descriptor(V00, <<>>, <<>>, <<>>, <<>>, {"change", "remove", "indexes"})

IdleRun ==
    [pc |-> "idle", op |-> "none", migration |-> NoMigration, table |-> "T",
     arg |-> 0, columns |-> <<>>, expressions |-> <<>>,
     ixTodo |-> <<>>, memo |-> [has |-> FALSE, list |-> <<>>],
     listing |-> [todo |-> <<>>, done |-> <<>>],
     ixName |-> "", ixCols |-> <<>>,
     err |-> NoError, cbCount |-> 0,
     \* history of the call
     issued |-> <<>>, executed |-> 0, faulted |-> FALSE, overlap |-> FALSE, priorOk |-> FALSE,
     fresh |-> FALSE, live0 |-> <<>>, ix0 |-> <<>>, given |-> NoMigration,
     answered |-> <<>>, handed |-> <<>>,
     ledger0 |-> <<>>, hadLedger |-> FALSE, result |-> <<>>, after |-> <<>>]

Stmt(op, name) == [op |-> op, name |-> name]

Active(r) == r.pc \notin {"idle", "done", "crashed"}

Crashed == \E p \in Procs : run[p].pc = "crashed"

\* the call's callback is invoked with err
Finish(r, err) == [r EXCEPT !.pc = "done", !.err = err, !.cbCount = @ + 1]

\* a statement is handed to execute; pc names the statement in flight
Issue(r, stmt, pc) == [r EXCEPT !.pc = pc, !.issued = Append(@, stmt)]

\* an uncaught exception is thrown inside an engine callback
Throw(r, e) == [r EXCEPT !.pc = "crashed", !.err = e]

\* the status a stage of the waterfall is handed, stage after stage
Handed(r, arg) == [r EXCEPT !.handed = Append(@, arg)]

\* the last stage that marks the descriptor updated and writes no row
Stage7MarksUpdated(r, arg) == Finish([r EXCEPT !.migration.updated = TRUE], NoError)

\* last stage of the waterfall: log the migration or mark it updated
Stage7(r, arg) ==
    LET r7 == Handed(r, arg)
    IN IF arg > 0
       THEN Issue(r7, Stmt("INSERT INTO migrations", r.migration.appliesTo), "insert")
       ELSE Finish([r7 EXCEPT !.migration.updated = TRUE], NoError)

\* cols of indexes(table).create: a string is one column, an array is copied
ColsOf(cols) == cols.items

\* the count taken position by position: a column counts only in its own place
CountDownInOrder(ixColumns, cols, nCols) ==
    nCols - Cardinality({i \in 1..Len(cols) :
                            i <= Len(ixColumns) /\ ixColumns[i] = cols[i]})

\* the number of requested columns the existing index does not account for
RECURSIVE CountDown(_, _, _)
CountDown(ixColumns, cols, nCols) ==
    IF ixColumns = <<>> THEN nCols
    ELSE CountDown(Tail(ixColumns), cols,
                   IF \E i \in 1..Len(cols) : cols[i] = Head(ixColumns)
                   THEN nCols - 1 ELSE nCols)

FindIx(list, name) ==
    IF \E i \in 1..Len(list) : list[i].name = name
    THEN CHOOSE i \in 1..Len(list) :
            list[i].name = name /\ \A j \in 1..(i - 1) : list[j].name # name
    ELSE 0

RECURSIVE EachIndex(_)
RECURSIVE IndexReturn(_, _)
RECURSIVE AfterList(_, _)
RECURSIVE IndexCreate(_, _, _)

\* the variant in which eachSeries of the index stage goes on after an error
IndexReturnIgnoresError(r, err) ==
    IF r.op = "migrate" THEN EachIndex(r) ELSE Finish(r, err)

\* the callback given to indexes(table).create is invoked with err: the
\* iteration of eachSeries in migrate, or the caller of a direct call
IndexReturn(r, err) ==
    IF r.op = "migrate"
    THEN IF err # NoError THEN Finish(r, err) ELSE EachIndex(r)
    ELSE Finish(r, err)

\* the callback of thisArg.list in create: indexes is the listed array
AfterList(r, indexes) ==
    LET k == FindIx(indexes, r.ixName)
        create == Stmt("CREATE INDEX", r.ixName)
    IN IF k = 0
       THEN Issue(r, create, "ixCreate")
       ELSE IF CountDown(indexes[k].columns, r.ixCols, Len(r.ixCols)) > 0
            THEN Issue(r, Stmt("PRAGMA INDEX_LIST (drop)", r.table), "ixDropList")
            ELSE IndexReturn(r, NoError)

\* indexes(table).create(name, columns, callback) up to its first statement
IndexCreate(r, name, cols) ==
    IF cols.kind \notin {"string", "array"}
    THEN IndexReturn(r, InvalidColumnsError)
    ELSE LET r1 == [r EXCEPT !.ixName = name, !.ixCols = ColsOf(cols)]
         IN IF r1.memo.has
            THEN AfterList(r1, r1.memo.list)
            ELSE Issue(r1, Stmt("PRAGMA INDEX_LIST", r1.table), "ixList")

\* eachSeries(migration.indexes, ...) of the index stage
EachIndex(r) ==
    IF r.ixTodo = <<>>
    THEN Stage7(r, 1)
    ELSE IndexCreate([r EXCEPT !.ixTodo = Tail(@)],
                     Head(r.ixTodo).name, Head(r.ixTodo).columns)

\* an index stage that hands the ledger stage 0 whatever it was handed
Stage6HandsZero(r, arg) == Stage7(Handed(r, arg), 0)

\* index stage of the waterfall; the handle indexes(appliesTo) is new
Stage6(r, arg) ==
    LET r6 == Handed(r, arg)
    IN IF arg <= 0 THEN Stage7(r6, arg)
       ELSE IF Has(r.migration, "indexes")
            THEN EachIndex([r6 EXCEPT !.ixTodo = r.migration.indexes,
                                      !.memo = [has |-> FALSE, list |-> <<>>]])
            ELSE Stage7(r6, 1)

\* eachSeries(expressions, ...) of the alter path
NextAlter(r) ==
    IF r.expressions = <<>> THEN Stage6(r, 1)
    ELSE Issue(r, Stmt("ALTER TABLE ADD COLUMN", Head(r.expressions).name), "alter")

\* stage 5 of the waterfall: create or alter the target table
Stage5(r) ==
    LET r5 == Handed(r, r.arg)
    IN IF r.arg < 0 THEN Stage6(r5, r.arg)
       ELSE IF r.arg = 0
            THEN Issue(r5, Stmt("CREATE TABLE", r.migration.appliesTo), "createTable")
            ELSE IF r.arg = 1
                 THEN LET rec == Reconcile(r.migration, r.columns)
                          r1 == [r5 EXCEPT !.migration = rec.migration]
                      IN IF rec.failed THEN Finish(r1, FullMigrationError)
                         ELSE IF Len(rec.expressions) > 0
                              THEN NextAlter([r1 EXCEPT !.expressions = rec.expressions])
                              ELSE Stage6(r1, 2)
                 ELSE Finish(r5, InvalidStatusError)

\* stages 3 and 4a after the version is known
Stage4a(r, ver) ==
    IF StrGE(ver, r.migration.version)
    THEN Stage5([[r EXCEPT !.migration.updated = TRUE] EXCEPT !.arg = -1])
    ELSE Issue(r, Stmt("SELECT sqlite_master", r.migration.appliesTo), "tableExists")

(***************************************************************************)
(* migrate: one action per statement that completes.  The action applies   *)
(* the statement to the catalog, runs the callback and every synchronous   *)
(* stage after it, and ends where the next statement is handed to execute. *)
(***************************************************************************)
\* whether the engine may fail the statement that completes: within the
\* budget of failures, and only for a call that runs alone (the statements of
\* overlapping calls all succeed)
FaultChoices ==
    IF faults > 0 /\ Cardinality({q \in Procs : Active(run[q])}) <= 1
    THEN {FALSE, TRUE} ELSE {FALSE}

\* the statement in flight is answered: answered records, statement by
\* statement, whether the engine executed it
Fault(r, fail) == [r EXCEPT !.faulted = @ \/ fail, !.answered = Append(@, ~fail)]

\* the engine executed the statement just answered (ok) or refused it
Outcome(r, ok) == [r EXCEPT !.answered = [@ EXCEPT ![Len(@)] = ok]]

Spend(fail) == faults' = IF fail THEN faults - 1 ELSE faults

Commit(p, r2) ==
    /\ run' = [run EXCEPT ![p] = r2]
    /\ applied' = IF r2.pc = "done" /\ r2.op = "migrate" /\ r2.err = NoError
                  THEN applied \cup {<<r2.migration.appliesTo, r2.migration.version>>}
                  ELSE applied

VersionQuery(r) ==
    Issue(r, Stmt("SELECT MAX(version)", r.migration.appliesTo), "version")

ActiveMigrations == Cardinality({q \in Procs : Active(run[q]) /\ run[q].op = "migrate"})

\* the slot a new call takes: the lowest one that holds no call in progress
FreeSlot(p) == ~Active(run[p]) /\ \A q \in 1..(p - 1) : Active(run[q])

\* the slots after call r1 has started in slot p: a call in progress has
\* been overlapped, the closure of a call that has returned is dropped
Started(p, r1) ==
    [q \in Procs |->
        IF q = p THEN r1
        ELSE IF Active(run[q]) THEN [run[q] EXCEPT !.overlap = TRUE]
        ELSE IdleRun]

\* migrate(obj, callback) up to its first statement (stages 1 and 2)
MigrateStart(p, d) ==
    /\ ~Crashed
    /\ FreeSlot(p)
    /\ Len(ledger) + ActiveMigrations < MaxLedger
    /\ \A q \in Procs : Active(run[q]) => run[q].given = d
    /\ LET over == \E q \in Procs \ {p} : Active(run[q])
           r0 == [IdleRun EXCEPT !.op = "migrate", !.migration = d, !.given = d,
                                 !.table = d.appliesTo, !.live0 = tables[d.appliesTo],
                                 !.priorOk = (<<d.appliesTo, d.version>> \in applied),
                                 !.ledger0 = ledger, !.hadLedger = hasLedger,
                                 !.ix0 = dbIndexes, !.overlap = over]
           r1 == IF supportMigrations
                 THEN VersionQuery(r0)
                 ELSE Issue(r0, Stmt("SELECT sqlite_master", "migrations"), "ledgerExists")
       IN run' = Started(p, r1)
    /\ UNCHANGED <<tables, hasLedger, ledger, dbIndexes, supportMigrations, faults, applied>>
    /\ UNCHANGED <<txVars, exVars>>

\* table('migrations').exists answers; the ledger is created when absent
LedgerExists(p) ==
    /\ ~Crashed
    /\ run[p].pc = "ledgerExists"
    /\ \E fail \in FaultChoices :
        /\ Spend(fail)
        /\ LET r == Fault(run[p], fail)
           IN Commit(p, IF fail THEN Finish(r, EngineError)
                        ELSE IF hasLedger THEN VersionQuery(r)
                        ELSE Issue(r, Stmt("CREATE TABLE", "migrations"), "createLedger"))
    /\ UNCHANGED <<tables, hasLedger, ledger, dbIndexes, supportMigrations>>
    /\ UNCHANGED <<txVars, exVars>>

\* CREATE TABLE migrations(...) completes
CreateLedger(p) ==
    /\ ~Crashed
    /\ run[p].pc = "createLedger"
    /\ \E fail \in FaultChoices :
        /\ Spend(fail)
        /\ LET r == Fault(run[p], fail)
               ok == ~fail /\ ~hasLedger
           IN /\ Commit(p, Outcome(IF ok THEN VersionQuery(r) ELSE Finish(r, EngineError), ok))
              /\ hasLedger' = (hasLedger \/ ok)
              /\ supportMigrations' = (supportMigrations \/ ok)
    /\ UNCHANGED <<tables, ledger, dbIndexes>>
    /\ UNCHANGED <<txVars, exVars>>

\* table(appliesTo).version answers (stage 3), then stage 4a
Version(p) ==
    /\ ~Crashed
    /\ run[p].pc = "version"
    /\ \E fail \in FaultChoices :
        /\ Spend(fail)
        /\ LET r == Fault(run[p], fail)
           IN Commit(p, Outcome(IF fail \/ ~hasLedger THEN Finish(r, EngineError)
                                ELSE Stage4a(r, version(ledger, r.migration.appliesTo)),
                                ~fail /\ hasLedger))
    /\ UNCHANGED <<tables, hasLedger, ledger, dbIndexes, supportMigrations>>
    /\ UNCHANGED <<txVars, exVars>>

\* table(appliesTo).exists answers (stage 4a), stage 4 asks for the columns
TableExists(p) ==
    /\ ~Crashed
    /\ run[p].pc = "tableExists"
    /\ \E fail \in FaultChoices :
        /\ Spend(fail)
        /\ LET r == Fault(run[p], fail)
               exists == TableExistsIn(tables, r.migration.appliesTo)
           IN Commit(p, IF fail THEN Finish(r, EngineError)
                        ELSE Issue([r EXCEPT !.arg = IF exists THEN 1 ELSE 0],
                                   Stmt("PRAGMA table_info", r.migration.appliesTo),
                                   "columns"))
    /\ UNCHANGED <<tables, hasLedger, ledger, dbIndexes, supportMigrations>>
    /\ UNCHANGED <<txVars, exVars>>

\* table(appliesTo).columns answers (stage 4), then stage 5
Columns(p) ==
    /\ ~Crashed
    /\ run[p].pc = "columns"
    /\ \E fail \in FaultChoices :
        /\ Spend(fail)
        /\ LET r == Fault(run[p], fail)
           IN Commit(p, IF fail THEN Finish(r, EngineError)
                        ELSE Stage5([r EXCEPT !.columns =
                                columns(TableInfo(tables, r.migration.appliesTo))]))
    /\ UNCHANGED <<tables, hasLedger, ledger, dbIndexes, supportMigrations>>
    /\ UNCHANGED <<txVars, exVars>>

\* the filter that keeps every entry
MaterializedAll(x) == TRUE

\* migration.add.filter(function (x) { return !x['oneToMany']; })
Materialized(x) == ~x.oneToMany

\* CREATE TABLE "appliesTo" (...) of the create path completes
CreateTable(p) ==
    /\ ~Crashed
    /\ run[p].pc = "createTable"
    /\ \E fail \in FaultChoices :
        /\ Spend(fail)
        /\ LET r == Fault(run[p], fail)
               t == r.migration.appliesTo
               defs == ColumnDefs(SelectSeq(r.migration.add, Materialized))
               ok == ~fail /\ CreateTableOk(tables, t, defs)
           IN /\ Commit(p, Outcome(IF ok THEN Stage6([r EXCEPT !.executed = @ + 1], 1)
                                   ELSE Finish(r, EngineError), ok))
              /\ tables' = IF ok THEN [tables EXCEPT ![t] = defs] ELSE tables
    /\ UNCHANGED <<hasLedger, ledger, dbIndexes, supportMigrations>>
    /\ UNCHANGED <<txVars, exVars>>

\* one ALTER TABLE ... ADD COLUMN of the alter path completes
Alter(p) ==
    /\ ~Crashed
    /\ run[p].pc = "alter"
    /\ \E fail \in FaultChoices :
        /\ Spend(fail)
        /\ LET r == Fault(run[p], fail)
               t == r.migration.appliesTo
               def == ColumnDef(Head(r.expressions))
               ok == ~fail /\ AddColumnOk(tables, t, def)
           IN /\ Commit(p, Outcome(IF ok THEN NextAlter([r EXCEPT !.expressions = Tail(@),
                                                                  !.executed = @ + 1])
                                   ELSE Finish(r, EngineError), ok))
              /\ tables' = IF ok THEN [tables EXCEPT ![t] = Append(@, def)] ELSE tables
    /\ UNCHANGED <<hasLedger, ledger, dbIndexes, supportMigrations>>
    /\ UNCHANGED <<txVars, exVars>>

\* INSERT INTO migrations(...) of the last stage completes
Insert(p) ==
    /\ ~Crashed
    /\ run[p].pc = "insert"
    /\ \E fail \in FaultChoices :
        /\ Spend(fail)
        /\ LET r == Fault(run[p], fail)
               m == r.migration
               ok == ~fail /\ hasLedger
           IN /\ Commit(p, Outcome(IF ok THEN Finish(r, NoError) ELSE Finish(r, EngineError), ok))
              /\ ledger' = IF ok
                           THEN Append(ledger, [appliesTo |-> m.appliesTo, model |-> m.model,
                                                version |-> m.version,
                                                description |-> m.description])
                           ELSE ledger
    /\ UNCHANGED <<tables, hasLedger, dbIndexes, supportMigrations>>
    /\ UNCHANGED <<txVars, exVars>>

(***************************************************************************)
(* indexes(table): list, create and drop                                   *)
(* An index of the catalog is [name, tbl, columns, origin].                *)
(***************************************************************************)
IndexesOf(ixs, t) == LET OnTable(x) == x.tbl = t IN SelectSeq(ixs, OnTable)

Created(x) == x.origin = "c"

\* PRAGMA INDEX_INFO(name): the columns of the index, none when it is absent
IndexInfo(ixs, name) ==
    LET k == FindIx(ixs, name) IN IF k = 0 THEN <<>> ELSE ixs[k].columns

\* CREATE INDEX name ON t(cols): fails when the name is taken, the table is
\* absent or a column is not one of the table
CreateIndexOk(ixs, tbls, t, name, cols) ==
    /\ FindIx(ixs, name) = 0
    /\ TableExistsIn(tbls, t)
    /\ Len(cols) > 0
    /\ \A i \in 1..Len(cols) : cols[i] \in Names(tbls[t])

\* list(): PRAGMA INDEX_LIST(table) answers; the created indexes are kept
\* and their columns are asked for one index after the other
IxList(p) ==
    /\ ~Crashed
    /\ run[p].pc = "ixList"
    /\ \E fail \in FaultChoices :
        /\ Spend(fail)
        /\ LET r == Fault(run[p], fail)
               found == SelectSeq(IndexesOf(dbIndexes, r.table), Created)
               names == [i \in 1..Len(found) |-> found[i].name]
           IN Commit(p,
                IF fail THEN IndexReturn(r, EngineError)
                ELSE IF names = <<>>
                     THEN AfterList([r EXCEPT !.memo = [has |-> TRUE, list |-> <<>>]], <<>>)
                     ELSE Issue([r EXCEPT !.listing = [todo |-> names, done |-> <<>>]],
                                Stmt("PRAGMA INDEX_INFO", Head(names)), "ixInfo"))
    /\ UNCHANGED <<tables, hasLedger, ledger, dbIndexes, supportMigrations>>
    /\ UNCHANGED <<txVars, exVars>>

\* list(): PRAGMA INDEX_INFO(index) answers; after the last index the list
\* is memoized on the handle and handed to create
IxInfo(p) ==
    /\ ~Crashed
    /\ run[p].pc = "ixInfo"
    /\ \E fail \in FaultChoices :
        /\ Spend(fail)
        /\ LET r == Fault(run[p], fail)
               name == Head(r.listing.todo)
               done == Append(r.listing.done,
                              [name |-> name, columns |-> IndexInfo(dbIndexes, name)])
               rest == Tail(r.listing.todo)
           IN Commit(p,
                IF fail THEN IndexReturn(r, EngineError)
                ELSE IF rest = <<>>
                     THEN AfterList([r EXCEPT !.listing = [todo |-> <<>>, done |-> <<>>],
                                              !.memo = [has |-> TRUE, list |-> done]], done)
                     ELSE Issue([r EXCEPT !.listing = [todo |-> rest, done |-> done]],
                                Stmt("PRAGMA INDEX_INFO", Head(rest)), "ixInfo"))
    /\ UNCHANGED <<tables, hasLedger, ledger, dbIndexes, supportMigrations>>
    /\ UNCHANGED <<txVars, exVars>>

\* create(): CREATE INDEX completes and create's callback is invoked
IxCreate(p) ==
    /\ ~Crashed
    /\ run[p].pc = "ixCreate"
    /\ \E fail \in FaultChoices :
        /\ Spend(fail)
        /\ LET r == Fault(run[p], fail)
               ok == ~fail /\ CreateIndexOk(dbIndexes, tables, r.table, r.ixName, r.ixCols)
           IN /\ Commit(p, Outcome(IndexReturn(r, IF ok THEN NoError ELSE EngineError), ok))
              /\ dbIndexes' = IF ok
                              THEN Append(dbIndexes, [name |-> r.ixName, tbl |-> r.table,
                                                      columns |-> r.ixCols, origin |-> "c"])
                              ELSE dbIndexes
    /\ UNCHANGED <<tables, hasLedger, ledger, supportMigrations>>
    /\ UNCHANGED <<txVars, exVars>>

\* drop(name): PRAGMA INDEX_LIST(table) answers.  An index of that name
\* makes drop evaluate self.escapeName(name), which the adapter does not
\* define: a TypeError is thrown inside the engine's callback.  Without such
\* an index drop's callback runs and create hands over CREATE INDEX.
IxDropList(p) ==
    /\ ~Crashed
    /\ run[p].pc = "ixDropList"
    /\ \E fail \in FaultChoices :
        /\ Spend(fail)
        /\ LET r == Fault(run[p], fail)
               exists == FindIx(IndexesOf(dbIndexes, r.table), r.ixName) # 0
           IN Commit(p,
                IF fail THEN IndexReturn(r, EngineError)
                ELSE IF exists THEN Throw(r, TypeErrorThrown)
                ELSE Issue(r, Stmt("CREATE INDEX", r.ixName), "ixCreate"))
    /\ UNCHANGED <<tables, hasLedger, ledger, dbIndexes, supportMigrations>>
    /\ UNCHANGED <<txVars, exVars>>

(***************************************************************************)
(* table(name).version called on its own                                   *)
(***************************************************************************)
\* the rows of the ledger for table t
RowsFor(rws, t) == LET For(r) == r.appliesTo = t IN SelectSeq(rws, For)

\* the version of the migrate call that has just returned without error,
\* for table t and on a ledger that held no row for t; <<>> when the call
\* before was no such call
JustMigrated(t) ==
    LET S == {q \in Procs : /\ run[q].op = "migrate" /\ run[q].pc = "done"
                            /\ run[q].err = NoError /\ ~run[q].overlap
                            /\ run[q].given.appliesTo = t
                            /\ RowsFor(run[q].ledger0, t) = <<>>}
    IN IF S = {} THEN <<>> ELSE run[CHOOSE q \in S : TRUE].given.version

\* table(name).version(callback): SELECT MAX(version) is handed to execute
TableVersionStart(p, name) ==
    /\ ~Crashed
    /\ FreeSlot(p)
    /\ \A q \in Procs : ~Active(run[q])
    /\ LET r0 == [IdleRun EXCEPT !.op = "version", !.table = name,
                                 !.ledger0 = ledger, !.hadLedger = hasLedger,
                                 !.after = JustMigrated(name)]
       IN run' = Started(p, Issue(r0, Stmt("SELECT MAX(version)", name), "tableVersion"))
    /\ UNCHANGED <<tables, hasLedger, ledger, dbIndexes, supportMigrations, faults, applied>>
    /\ UNCHANGED <<txVars, exVars>>

\* SELECT MAX(version) answers: the engine refuses it when there is no
\* migrations table; otherwise result[0].version || '0.0'
TableVersion(p) ==
    /\ ~Crashed
    /\ run[p].pc = "tableVersion"
    /\ \E fail \in FaultChoices :
        /\ Spend(fail)
        /\ LET r == Fault(run[p], fail)
           IN Commit(p, Outcome(IF fail \/ ~hasLedger THEN Finish(r, EngineError)
                                ELSE Finish([r EXCEPT !.result = version(ledger, r.table)],
                                            NoError),
                                ~fail /\ hasLedger))
    /\ UNCHANGED <<tables, hasLedger, ledger, dbIndexes, supportMigrations>>
    /\ UNCHANGED <<txVars, exVars>>

(***************************************************************************)
(* Initial states and the specification of migrate                         *)
(***************************************************************************)
LedgerRow(t, v) ==
    [appliesTo |-> t, model |-> "TModel", version |-> v, description |-> "T migration"]

colBlower == [ColumnDef(fB) EXCEPT !.word = "text"]

IxRecord(name, cols) == [name |-> name, tbl |-> "T", columns |-> cols, origin |-> "c"]

\* the database file as an earlier process may have left it
Catalogs ==
    { [tables |-> [t \in TableNames |-> <<>>], hasLedger |-> FALSE,
       ledger |-> <<>>, dbIndexes |-> <<>>],
      [tables |-> [t \in TableNames |-> ColumnDefs(<<fA, fB>>)], hasLedger |-> TRUE,
       ledger |-> <<LedgerRow("T", V10)>>, dbIndexes |-> <<>>],
      [tables |-> [t \in TableNames |-> ColumnDefs(<<fA, fB>>)], hasLedger |-> TRUE,
       ledger |-> <<LedgerRow("T", V10)>>, dbIndexes |-> <<IxRecord("ix1", <<"B">>)>>],
      [tables |-> [t \in TableNames |-> <<ColumnDef(fA), colBlower>>], hasLedger |-> TRUE,
       ledger |-> <<>>, dbIndexes |-> <<>>] }

TxIdle ==
    /\ rawConnection = 0
    /\ transaction = FALSE
    /\ engineTx = FALSE
    /\ calls = <<>>
    /\ txLog = <<>>

ExIdle ==
    /\ rows = <<>>
    /\ returned = <<>>
    /\ connections = <<>>
    /\ views = {}
    /\ formatted = <<>>
    /\ increments = <<>>

Init ==
    /\ \E c \in Catalogs :
        /\ tables = c.tables
        /\ hasLedger = c.hasLedger
        /\ ledger = c.ledger
        /\ dbIndexes = c.dbIndexes
    /\ supportMigrations = FALSE
    /\ run = [p \in Procs |-> IdleRun]
    /\ faults = MaxFaults
    /\ applied = {}
    /\ TxIdle
    /\ ExIdle

Next ==
    \/ \E p \in Procs, d \in Descriptors : MigrateStart(p, d)
    \/ \E p \in Procs : LedgerExists(p)
    \/ \E p \in Procs : CreateLedger(p)
    \/ \E p \in Procs : Version(p)
    \/ \E p \in Procs : TableExists(p)
    \/ \E p \in Procs : Columns(p)
    \/ \E p \in Procs : CreateTable(p)
    \/ \E p \in Procs : Alter(p)
    \/ \E p \in Procs : IxList(p)
    \/ \E p \in Procs : IxInfo(p)
    \/ \E p \in Procs : IxCreate(p)
    \/ \E p \in Procs : IxDropList(p)
    \/ \E p \in Procs : Insert(p)

Spec == Init /\ [][Next]_vars

(***************************************************************************)
(* Properties of migrate                                                   *)
(***************************************************************************)
Ops(r) == {r.issued[i].op : i \in 1..Len(r.issued)}

CountOp(r, op) == Cardinality({i \in 1..Len(r.issued) : r.issued[i].op = op})

DDLOps == {"CREATE TABLE", "ALTER TABLE ADD COLUMN", "CREATE INDEX", "DROP INDEX"}

Finished(r) == r.op = "migrate" /\ r.pc = "done"

\* the call reached the alter path: the table existed and its columns are known
OnAlterPath(r) ==
    /\ r.op = "migrate"
    /\ r.arg = 1
    /\ r.pc \notin {"ledgerExists", "createLedger", "version", "tableExists", "columns"}

\* C1: a migrate call that starts after a call with the same appliesTo and
\* version has succeeded issues no CREATE TABLE, ALTER TABLE, index statement or
\* ledger INSERT (it only asks for the ledger and the version), and, the
\* engine answering its statements, returns without error with updated = true.
C1_MigrateIdempotent ==
    \A p \in Procs :
        (run[p].op = "migrate" /\ run[p].priorOk) =>
            /\ Ops(run[p]) \subseteq {"SELECT sqlite_master", "SELECT MAX(version)"}
            /\ (run[p].pc = "done" /\ ~run[p].faulted) =>
                    (run[p].err = NoError /\ run[p].migration.updated)

C1_Witness ==
    \E p \in Procs :
        /\ Finished(run[p]) /\ run[p].priorOk /\ ~run[p].faulted
        /\ run[p].given.version = V20
        /\ \E i \in 1..Len(ledger) : ledger[i].version = V20
        /\ run[p].migration.updated

\* a change entry of the descriptor names a live non-primary column whose
\* mapped type differs from the live type and nullability
DestructiveChange(r) ==
    /\ OnAlterPath(r)
    /\ Has(r.given, "change")
    /\ \E i \in 1..Len(r.given.change) :
          LET k == FindIndex(r.columns, r.given.change[i].name)
          IN k > 0 /\ ~r.columns[k].primary
                   /\ formatT(r.given.change[i]) # oldTypeOf(r.columns[k])

\* C2: a migrate call on an existing table whose change list names a live
\* non-primary column with a different mapped type fails with the 'full table
\* migration' error, issues no DDL statement and writes no ledger row.
C2_DestructiveChangeRejected ==
    \A p \in Procs :
        (Finished(run[p]) /\ DestructiveChange(run[p])
            /\ ~run[p].faulted /\ ~run[p].overlap) =>
            /\ run[p].err = FullMigrationError
            /\ Ops(run[p]) \cap DDLOps = {}
            /\ "INSERT INTO migrations" \notin Ops(run[p])

\* C5: the ledger never holds two rows with the same appliesTo and version,
\* and of the calls made for one (appliesTo, version) at most one has executed
\* DDL.
C5_AppliedAtMostOnce ==
    /\ \A i, j \in 1..Len(ledger) :
          (i # j) => ~(ledger[i].appliesTo = ledger[j].appliesTo
                        /\ ledger[i].version = ledger[j].version)
    /\ \A p, q \in Procs :
          (p # q /\ run[p].op = "migrate" /\ run[q].op = "migrate"
             /\ run[p].given.appliesTo = run[q].given.appliesTo
             /\ run[p].given.version = run[q].given.version) =>
            ~(run[p].executed > 0 /\ run[q].executed > 0)

\* the case of C6: an existing table, a single add entry naming no live
\* column, and no other call in progress during this one
Additive(r) ==
    /\ OnAlterPath(r)
    /\ ~r.overlap
    /\ Len(r.given.add) = 1
    /\ r.given.add[1].name \notin Names(r.live0)

\* C6: for an existing table with live columns L and a newer descriptor whose
\* add list is [C], C not in L, migrate issues at most one ALTER TABLE ... ADD
\* COLUMN, for C; a call that succeeds has issued exactly one, and columns()
\* then reports exactly L and C.
C6_AdditiveMigration ==
    \A p \in Procs :
        Additive(run[p]) =>
            /\ CountOp(run[p], "ALTER TABLE ADD COLUMN") <= 1
            /\ \A i \in 1..Len(run[p].issued) :
                  run[p].issued[i].op = "ALTER TABLE ADD COLUMN"
                      => run[p].issued[i].name = run[p].given.add[1].name
            /\ (run[p].pc = "done" /\ run[p].err = NoError) =>
                  /\ CountOp(run[p], "ALTER TABLE ADD COLUMN") = 1
                  /\ Names(columns(TableInfo(tables, run[p].table)))
                        = Names(run[p].live0) \cup {run[p].given.add[1].name}

C6_Witness ==
    \E p \in Procs :
        /\ Additive(run[p]) /\ run[p].pc = "done" /\ run[p].err = NoError
        /\ Names(run[p].live0) = {"A", "B"}
        /\ Names(columns(TableInfo(tables, "T"))) = {"A", "B", "C"}

\* a remove entry of the descriptor names a live non-primary column
DestructiveRemove(r) ==
    /\ OnAlterPath(r)
    /\ Has(r.given, "remove")
    /\ \E i \in 1..Len(r.given.remove) :
          LET k == FindIndex(r.columns, r.given.remove[i].name)
          IN k > 0 /\ ~r.columns[k].primary

\* C7: a migrate call on an existing table whose remove list names a live
\* non-primary column fails with the 'full table migration' error and issues
\* no DDL; a remove list that names only primary or absent columns does not
\* make the call fail with that error.
C7_RemovalRejected ==
    \A p \in Procs :
        (Finished(run[p]) /\ OnAlterPath(run[p]) /\ Has(run[p].given, "remove")
            /\ ~run[p].faulted /\ ~run[p].overlap) =>
            IF DestructiveRemove(run[p])
            THEN run[p].err = FullMigrationError /\ Ops(run[p]) \cap DDLOps = {}
            ELSE (Len(run[p].given.add) = 0 /\ ~Has(run[p].given, "change"))
                    => run[p].err # FullMigrationError

\* C16: after a migrate call, successful or failed, the add, change and
\* remove lists of the caller's descriptor hold the entries they held before
\* the call, in the same order.
C16_DescriptorListsUntouched ==
    \A p \in Procs :
        Finished(run[p]) =>
            /\ run[p].migration.add = run[p].given.add
            /\ run[p].migration.change = run[p].given.change
            /\ run[p].migration.remove = run[p].given.remove

\* C16 on the create path and the already-applied path
C16_UntouchedOffAlterPath ==
    \A p \in Procs :
        (Finished(run[p]) /\ ~OnAlterPath(run[p])) =>
            /\ run[p].migration.add = run[p].given.add
            /\ run[p].migration.change = run[p].given.change
            /\ run[p].migration.remove = run[p].given.remove

(***************************************************************************)
(* migrate and table(name).version, one after the other                    *)
(***************************************************************************)
\* the descriptors that carry an add list only, and one of them with an
\* entry flagged oneToMany
PlainDescriptors ==
    {d \in Descriptors : ~Has(d, "change") /\ ~Has(d, "remove") /\ ~Has(d, "indexes")}
        \cup {Descriptor(V10, <<fA, fMany, fB>>, <<>>, <<>>, <<>>,
                          {"change", "remove", "indexes"})}

NextVer ==
    \/ \E p \in Procs, d \in PlainDescriptors : MigrateStart(p, d)
    \/ \E p \in Procs : LedgerExists(p)
    \/ \E p \in Procs : CreateLedger(p)
    \/ \E p \in Procs : Version(p)
    \/ \E p \in Procs : TableExists(p)
    \/ \E p \in Procs : Columns(p)
    \/ \E p \in Procs : CreateTable(p)
    \/ \E p \in Procs : Alter(p)
    \/ \E p \in Procs : Insert(p)
    \/ \E p \in Procs, name \in TableNames : TableVersionStart(p, name)
    \/ \E p \in Procs : TableVersion(p)

SpecVer == Init /\ [][NextVer]_vars

\* a call of table(name).version that has returned, the engine answering
VersionReturned(r) == r.op = "version" /\ r.pc = "done" /\ ~r.faulted

\* C11: table(T).version() returns "0.0" when the ledger holds no row for T,
\* and called after a migrate with version V for T has succeeded on a table
\* never migrated before it returns V.
C11_VersionGating ==
    \A p \in Procs :
        VersionReturned(run[p]) =>
            /\ (RowsFor(run[p].ledger0, run[p].table) = <<>>) =>
                    (run[p].err = NoError /\ run[p].result = V00)
            /\ (run[p].after # <<>>) =>
                    (run[p].err = NoError /\ run[p].result = run[p].after)

\* the same for a database that has its migrations table
C11_WithLedgerTable ==
    \A p \in Procs :
        (VersionReturned(run[p]) /\ run[p].hadLedger) =>
            /\ (RowsFor(run[p].ledger0, run[p].table) = <<>>) =>
                    (run[p].err = NoError /\ run[p].result = V00)
            /\ (run[p].after # <<>>) =>
                    (run[p].err = NoError /\ run[p].result = run[p].after)

\* version() answers V after the first migration of T
C11_ReachedAfterMigrate ==
    \E p \in Procs :
        VersionReturned(run[p]) /\ run[p].after # <<>> /\ run[p].result = run[p].after

\* a migrate call, not overlapped, for a table that did not exist and whose
\* live version was lower than the descriptor's
CreatePath(r) ==
    /\ r.op = "migrate" /\ ~r.overlap
    /\ r.live0 = <<>>
    /\ StrLess(version(r.ledger0, r.table), r.given.version)

CountStmt(r, op, name) ==
    Cardinality({i \in 1..Len(r.issued) : r.issued[i] = Stmt(op, name)})

\* C17: on the create path at most one CREATE TABLE and no ALTER TABLE is
\* issued; a call that returns with the engine answering has issued exactly
\* one CREATE TABLE, and when it returns without error the table exists and
\* holds one column per add entry not flagged oneToMany, in that order.
C17_CreatePath ==
    \A p \in Procs :
        CreatePath(run[p]) =>
            LET r == run[p]
                NotFlagged(x) == ~x.oneToMany
                kept == SelectSeq(r.given.add, NotFlagged)
            IN /\ CountStmt(r, "CREATE TABLE", r.table) <= 1
               /\ "ALTER TABLE ADD COLUMN" \notin Ops(r)
               /\ (r.pc = "done" /\ ~r.faulted) => CountStmt(r, "CREATE TABLE", r.table) = 1
               /\ (r.pc = "done" /\ r.err = NoError) =>
                     /\ TableExistsIn(tables, r.table)
                     /\ Len(tables[r.table]) = Len(kept)
                     /\ \A i \in 1..Len(kept) : tables[r.table][i].name = kept[i].name

\* a table has been created from an add list with a oneToMany entry
C17_Witness ==
    \E p \in Procs :
        /\ CreatePath(run[p]) /\ run[p].pc = "done" /\ run[p].err = NoError
        /\ \E i \in 1..Len(run[p].given.add) : run[p].given.add[i].oneToMany
        /\ Len(tables[run[p].table]) = 2
        /\ CountStmt(run[p], "CREATE TABLE", run[p].table) = 1

(***************************************************************************)
(* Direct calls of indexes(table).create, one call at a time               *)
(***************************************************************************)
IndexNames == {"ix1", "ix2"}

ColumnArgs ==
    { [kind |-> "array", items |-> <<"B">>],
      [kind |-> "array", items |-> <<"C">>],
      [kind |-> "array", items |-> <<"B", "C">>],
      [kind |-> "array", items |-> <<"C", "B">>],
      [kind |-> "string", items |-> <<"B">>],
      [kind |-> "other", items |-> <<>>] }

\* indexes(table).create(name, columns, callback) on a new handle (again) or
\* on the handle of the call before
IndexCreateStart(p, again, name, cols) ==
    /\ ~Crashed
    /\ FreeSlot(p)
    /\ \A q \in Procs : ~Active(run[q])
    /\ LET memo == IF again THEN [has |-> FALSE, list |-> <<>>] ELSE run[p].memo
           r0 == [IdleRun EXCEPT !.op = "indexCreate", !.table = "T", !.memo = memo,
                                 !.fresh = ~memo.has, !.ix0 = dbIndexes,
                                 !.live0 = tables["T"]]
       IN Commit(p, IndexCreate(r0, name, cols))
    /\ UNCHANGED <<tables, hasLedger, ledger, dbIndexes, supportMigrations, faults>>
    /\ UNCHANGED <<txVars, exVars>>

AutoIndex == [name |-> "sqlite_autoindex_T_1", tbl |-> "T", columns |-> <<"B">>, origin |-> "u"]

IndexCatalogs ==
    { <<>>,
      <<IxRecord("ix1", <<"B">>)>>,
      <<IxRecord("ix1", <<"B", "C">>)>>,
      <<AutoIndex, IxRecord("ix1", <<"C", "B">>)>> }

InitIx ==
    /\ tables = [t \in TableNames |-> ColumnDefs(<<fA, fB, fC>>)]
    /\ hasLedger = FALSE
    /\ ledger = <<>>
    /\ dbIndexes \in IndexCatalogs
    /\ supportMigrations = FALSE
    /\ run = [p \in Procs |-> IdleRun]
    /\ faults = MaxFaults
    /\ applied = {}
    /\ TxIdle
    /\ ExIdle

NextIx ==
    \/ \E p \in Procs, again \in BOOLEAN, name \in IndexNames, cols \in ColumnArgs :
            IndexCreateStart(p, again, name, cols)
    \/ \E p \in Procs : IxList(p)
    \/ \E p \in Procs : IxInfo(p)
    \/ \E p \in Procs : IxCreate(p)
    \/ \E p \in Procs : IxDropList(p)

SpecIx == InitIx /\ [][NextIx]_vars

Range(seq) == {seq[i] : i \in 1..Len(seq)}

\* the created index of the call's name in the catalog as the call found it
Existing(r) ==
    LET k == FindIx(SelectSeq(IndexesOf(r.ix0, r.table), Created), r.ixName)
    IN IF k = 0 THEN <<>>
       ELSE <<SelectSeq(IndexesOf(r.ix0, r.table), Created)[k]>>

\* a create call on a new handle that got past its parameter check
CreateCall(r) ==
    /\ r.op = "indexCreate"
    /\ r.fresh
    /\ r.ixName # ""

\* C8: indexes(table).create(name, columns) on a new handle, columns naming
\* no column twice: when a created index of that name exists with the same set
\* of columns (in any order) the call issues no DROP INDEX and no CREATE INDEX
\* and, the engine answering, reports success; when no index of that name
\* exists it issues no DROP INDEX and at most one CREATE INDEX, exactly one
\* once it has returned with the engine answering.
C8_IndexUnchanged ==
    \A p \in Procs :
        CreateCall(run[p]) =>
            LET r == run[p]
                ex == Existing(r)
            IN /\ (ex # <<>> /\ Range(ex[1].columns) = Range(r.ixCols)) =>
                    /\ "CREATE INDEX" \notin Ops(r)
                    /\ "DROP INDEX" \notin Ops(r)
                    /\ "PRAGMA INDEX_LIST (drop)" \notin Ops(r)
                    /\ r.pc # "crashed"
                    /\ (r.pc = "done" /\ ~r.faulted) => r.err = NoError
               /\ (FindIx(r.ix0, r.ixName) = 0) =>
                    /\ "DROP INDEX" \notin Ops(r)
                    /\ "PRAGMA INDEX_LIST (drop)" \notin Ops(r)
                    /\ CountOp(r, "CREATE INDEX") <= 1
                    /\ (r.pc = "done" /\ ~r.faulted) => CountOp(r, "CREATE INDEX") = 1

\* an index of that name exists with the same columns in another order, and
\* the call has returned
C8_WitnessSame ==
    \E p \in Procs :
        /\ CreateCall(run[p]) /\ run[p].pc = "done" /\ run[p].err = NoError
        /\ Existing(run[p]) # <<>>
        /\ Existing(run[p])[1].columns # run[p].ixCols
        /\ Range(Existing(run[p])[1].columns) = Range(run[p].ixCols)
        /\ dbIndexes = run[p].ix0

C8_WitnessAbsent ==
    \E p \in Procs :
        /\ CreateCall(run[p]) /\ run[p].pc = "done" /\ run[p].err = NoError
        /\ FindIx(run[p].ix0, run[p].ixName) = 0
        /\ FindIx(dbIndexes, run[p].ixName) # 0

C8_Witness == C8_WitnessSame

\* C9: indexes(table).create(name, columns) on a new handle, when a created
\* index of that name exists whose column set differs from the requested one:
\* the call returns, and when it has (the engine answering) exactly one DROP
\* INDEX and then exactly one CREATE INDEX have been issued and the callback
\* reports success.
C9_IndexRecreated ==
    \A p \in Procs :
        LET r == run[p]
            ex == Existing(r)
        IN (CreateCall(r) /\ ~r.faulted /\ ex # <<>>
                /\ Range(ex[1].columns) # Range(r.ixCols)) =>
            /\ r.pc # "crashed"
            /\ (r.pc = "done") =>
                  /\ r.err = NoError
                  /\ CountOp(r, "DROP INDEX") = 1
                  /\ CountOp(r, "CREATE INDEX") = 1
                  /\ \E i, j \in 1..Len(r.issued) :
                        i < j /\ r.issued[i].op = "DROP INDEX"
                              /\ r.issued[j].op = "CREATE INDEX"

\* the two ways C9 fails, each on its own
C9_NoCrashOnDrop ==
    \A p \in Procs : run[p].pc # "crashed"

C9_SupersetRecreated ==
    \A p \in Procs :
        LET r == run[p]
            ex == Existing(r)
        IN (CreateCall(r) /\ ~r.faulted /\ r.pc = "done" /\ ex # <<>>
                /\ Range(ex[1].columns) # Range(r.ixCols)) =>
            CountOp(r, "CREATE INDEX") = 1

(***************************************************************************)
(* executeInTransaction                                                    *)
(* calls[c] is the frame of call c: parent is the call whose unit of work  *)
(* made it (0 for a call made outside every unit of work), pc names what   *)
(* the call waits for.                                                     *)
(***************************************************************************)
UnitFailed == "unit of work failed"

Frame(parent) ==
    [parent |-> parent, pc |-> "start", joined |-> FALSE,
     uowErr |-> NoError, err |-> NoError, cbCount |-> 0, stmts |-> <<>>]

\* the callback of the call is invoked with err
Return(f, err) == [f EXCEPT !.pc = "done", !.err = err, !.cbCount = @ + 1]

\* the always-begin variant of the open callback
AfterOpenBegins(f) == [f EXCEPT !.pc = "begin"]

\* the callback of open, no error: join the transaction in progress or
\* hand BEGIN TRANSACTION to the engine
AfterOpen(f) ==
    IF transaction
    THEN [f EXCEPT !.pc = "uow", !.joined = TRUE]
    ELSE [f EXCEPT !.pc = "begin"]

\* the variant that commits whatever the unit of work reports
AfterUowCommits(f, e) ==
    IF f.joined THEN Return([f EXCEPT !.uowErr = e], e)
    ELSE [f EXCEPT !.pc = "commit", !.uowErr = e]

\* the variant in which a call that joined never invokes its callback
AfterUowJoinedSilent(f, e) ==
    IF f.joined THEN [f EXCEPT !.pc = "lost", !.uowErr = e]
    ELSE IF e # NoError THEN [f EXCEPT !.pc = "rollback", !.uowErr = e]
    ELSE [f EXCEPT !.pc = "commit", !.uowErr = e]

\* the continuation handed to fn is invoked with e
AfterUow(f, e) ==
    IF f.joined THEN Return([f EXCEPT !.uowErr = e], e)
    ELSE IF e # NoError THEN [f EXCEPT !.pc = "rollback", !.uowErr = e]
    ELSE [f EXCEPT !.pc = "commit", !.uowErr = e]

\* the statement a frame has just handed to the engine, if any
Logged(c, f) ==
    IF f.pc = "begin" THEN Append(txLog, [stmt |-> "BEGIN", call |-> c])
    ELSE IF f.pc = "commit" THEN Append(txLog, [stmt |-> "COMMIT", call |-> c])
    ELSE IF f.pc = "rollback" THEN Append(txLog, [stmt |-> "ROLLBACK", call |-> c])
    ELSE txLog

AllReturned == \A c \in 1..Len(calls) : calls[c].pc = "done"

\* the unit of work of call c runs and waits for no call of its own
InUnitOfWork(c) ==
    /\ calls[c].pc = "uow"
    /\ \A k \in 1..Len(calls) : calls[k].parent = c => calls[k].pc = "done"

\* executeInTransaction(fn, callback), called outside every unit of work
\* (parent = 0, no other call in progress) or by the unit of work of parent
ExecuteInTransaction(parent) ==
    /\ Len(calls) < MaxCalls
    /\ IF parent = 0 THEN AllReturned ELSE InUnitOfWork(parent)
    /\ LET c == Len(calls) + 1
       IN IF rawConnection # 0
          THEN /\ calls' = Append(calls, AfterOpen(Frame(parent)))
               /\ txLog' = Logged(c, AfterOpen(Frame(parent)))
               /\ UNCHANGED rawConnection
          ELSE /\ calls' = Append(calls, [Frame(parent) EXCEPT !.pc = "open"])
               /\ rawConnection' = 1
               /\ UNCHANGED txLog
    /\ UNCHANGED <<transaction, engineTx>>
    /\ UNCHANGED <<dbVars, exVars>>

\* the callback of new sqlite3.Database(...) runs
OpenDone(c) ==
    /\ calls[c].pc = "open"
    /\ \E fail \in FaultChoices :
        /\ Spend(fail)
        /\ IF fail
           THEN /\ rawConnection' = 0
                /\ calls' = [calls EXCEPT ![c] = Return(@, EngineError)]
                /\ UNCHANGED txLog
           ELSE /\ calls' = [calls EXCEPT ![c] = AfterOpen(@)]
                /\ txLog' = Logged(c, AfterOpen(calls[c]))
                /\ UNCHANGED rawConnection
    /\ UNCHANGED <<transaction, engineTx>>
    /\ UNCHANGED <<tables, hasLedger, ledger, dbIndexes, supportMigrations, run, applied>>
    /\ UNCHANGED exVars

\* BEGIN TRANSACTION completes; the engine refuses it inside a transaction
BeginDone(c) ==
    /\ calls[c].pc = "begin"
    /\ \E fail \in FaultChoices :
        /\ Spend(fail)
        /\ LET ok == ~fail /\ ~engineTx
           IN /\ calls' = [calls EXCEPT ![c] = IF ok THEN [@ EXCEPT !.pc = "uow"]
                                                ELSE Return(@, EngineError)]
              /\ transaction' = (transaction \/ ok)
              /\ engineTx' = (engineTx \/ ok)
    /\ UNCHANGED <<rawConnection, txLog>>
    /\ UNCHANGED <<tables, hasLedger, ledger, dbIndexes, supportMigrations, run, applied>>
    /\ UNCHANGED exVars

\* the errors a unit of work may report: none, its own, or that of a call
\* it made
UowErrors(c) ==
    {NoError, UnitFailed}
        \cup {calls[k].err : k \in {j \in 1..Len(calls) : calls[j].parent = c}}

\* the unit of work of call c invokes its continuation with e
UowReturns(c, e) ==
    /\ InUnitOfWork(c)
    /\ calls' = [calls EXCEPT ![c] = AfterUow(@, e)]
    /\ txLog' = Logged(c, AfterUow(calls[c], e))
    /\ UNCHANGED <<rawConnection, transaction, engineTx>>
    /\ UNCHANGED <<dbVars, exVars>>

\* the marker that survives the end of the transaction
MarkerKept(t) == t

\* self.transaction = null in the callback of ROLLBACK and of COMMIT
MarkerAfterEnd(t) == FALSE

\* the variant that reports the engine's answer to ROLLBACK when there is one
RollbackReportsEngine(uowErr, engineErr) ==
    IF engineErr # NoError THEN engineErr ELSE uowErr

\* what the callback of ROLLBACK passes on: its function takes no argument
\* and hands over the error of the unit of work
RollbackReports(uowErr, engineErr) == uowErr

\* ROLLBACK completes: the marker is cleared and the callback gets the error
\* of the unit of work, whatever the engine answered
RollbackDone(c) ==
    /\ calls[c].pc = "rollback"
    /\ \E fail \in FaultChoices :
        /\ Spend(fail)
        /\ engineTx' = (engineTx /\ fail)
        /\ calls' = [calls EXCEPT ![c] =
                        Return(@, RollbackReports(calls[c].uowErr,
                                                  IF fail THEN EngineError ELSE NoError))]
    /\ transaction' = MarkerAfterEnd(transaction)
    /\ UNCHANGED <<rawConnection, txLog>>
    /\ UNCHANGED <<tables, hasLedger, ledger, dbIndexes, supportMigrations, run, applied>>
    /\ UNCHANGED exVars

\* COMMIT completes: the marker is cleared and the callback gets the
\* engine's answer
CommitDone(c) ==
    /\ calls[c].pc = "commit"
    /\ \E fail \in FaultChoices :
        /\ Spend(fail)
        /\ engineTx' = (engineTx /\ fail)
        /\ calls' = [calls EXCEPT ![c] = Return(@, IF fail THEN EngineError ELSE NoError)]
    /\ transaction' = MarkerAfterEnd(transaction)
    /\ UNCHANGED <<rawConnection, txLog>>
    /\ UNCHANGED <<tables, hasLedger, ledger, dbIndexes, supportMigrations, run, applied>>
    /\ UNCHANGED exVars

InitTx ==
    /\ tables = [t \in TableNames |-> <<>>]
    /\ hasLedger = FALSE
    /\ ledger = <<>>
    /\ dbIndexes = <<>>
    /\ supportMigrations = FALSE
    /\ run = [p \in Procs |-> IdleRun]
    /\ faults = MaxFaults
    /\ applied = {}
    /\ rawConnection \in {0, 1}
    /\ transaction = FALSE
    /\ engineTx = FALSE
    /\ calls = <<>>
    /\ txLog = <<>>
    /\ ExIdle

NextTx ==
    \/ \E parent \in 0..Len(calls) : ExecuteInTransaction(parent)
    \/ \E c \in 1..Len(calls) : OpenDone(c)
    \/ \E c \in 1..Len(calls) : BeginDone(c)
    \/ \E c \in 1..Len(calls) : \E e \in UowErrors(c) : UowReturns(c, e)
    \/ \E c \in 1..Len(calls) : RollbackDone(c)
    \/ \E c \in 1..Len(calls) : CommitDone(c)

SpecTx == InitTx /\ [][NextTx]_vars

(***************************************************************************)
(* Properties of executeInTransaction                                      *)
(***************************************************************************)
\* the outermost call of the nesting call c belongs to
RECURSIVE Root(_)
Root(c) == IF calls[c].parent = 0 THEN c ELSE Root(calls[c].parent)

Nested(c) == calls[c].parent # 0

\* the number of statements stmt issued by the calls of the nesting of root
IssuedIn(root, stmt) ==
    Cardinality({i \in 1..Len(txLog) : txLog[i].stmt = stmt /\ Root(txLog[i].call) = root})

\* C3: a call of executeInTransaction made by the unit of work of another
\* call issues no BEGIN, no COMMIT and no ROLLBACK, and its whole nesting has
\* issued exactly one BEGIN, at whatever depth the call is.
C3_NoNestedBegin ==
    \A c \in 1..Len(calls) :
        Nested(c) =>
            /\ \A i \in 1..Len(txLog) : txLog[i].call # c
            /\ IssuedIn(Root(c), "BEGIN") = 1

\* a call three levels deep has returned and its outermost call has committed
C3_Witness ==
    \E c \in 1..Len(calls) :
        /\ Nested(c) /\ Nested(calls[c].parent)
        /\ calls[c].pc = "done"
        /\ calls[Root(c)].pc = "done"
        /\ IssuedIn(Root(c), "COMMIT") = 1

\* the nesting of the outermost call root has a nested call that failed
InnerFailed(root) ==
    \E c \in 1..Len(calls) :
        Nested(c) /\ Root(c) = root /\ calls[c].pc = "done" /\ calls[c].err # NoError

\* C4 as stated: once a nested call has failed and the outermost call has
\* returned, exactly one ROLLBACK has been issued in the nesting, by the
\* outermost call, and no COMMIT.
C4_Original ==
    \A root \in 1..Len(calls) :
        (~Nested(root) /\ calls[root].pc = "done" /\ InnerFailed(root)) =>
            /\ IssuedIn(root, "ROLLBACK") = 1
            /\ IssuedIn(root, "COMMIT") = 0
            /\ \A i \in 1..Len(txLog) : txLog[i].stmt = "ROLLBACK" => ~Nested(txLog[i].call)

\* C4, amended: once a nested call has failed and the outermost unit of work
\* has reported an error to its continuation, the outermost call issues
\* ROLLBACK and no COMMIT; when it has returned exactly one ROLLBACK has been
\* issued in the nesting, by the outermost call, and no COMMIT.
C4_InnerFailureRollsBack ==
    \A root \in 1..Len(calls) :
        (~Nested(root) /\ InnerFailed(root) /\ calls[root].uowErr # NoError) =>
            /\ calls[root].pc \in {"rollback", "done"}
            /\ IssuedIn(root, "ROLLBACK") = 1
            /\ IssuedIn(root, "COMMIT") = 0
            /\ \A i \in 1..Len(txLog) :
                  (txLog[i].stmt = "ROLLBACK" /\ Root(txLog[i].call) = root)
                      => txLog[i].call = root

C4_Witness ==
    \E root \in 1..Len(calls) :
        /\ ~Nested(root) /\ InnerFailed(root)
        /\ calls[root].pc = "done" /\ calls[root].err # NoError
        /\ IssuedIn(root, "ROLLBACK") = 1

(***************************************************************************)
(* execute: the callback handed to rawConnection.all / rawConnection.run   *)
(* A row is a function from its keys to values; Null is the engine's null. *)
(***************************************************************************)
Null == "null"
Values == {Null, "x", "y"}
ResultKeys == {"a", "b"}

\* delete x[y] for every y of keys with x[y] === null
DeleteNulls(x, keys) ==
    [k \in {j \in DOMAIN x : ~(j \in keys /\ x[j] = Null)} |-> x[k]]

\* the normalisation with only the first row visited
NormalizeFirstRow(result) ==
    IF Len(result) > 0
    THEN [i \in 1..Len(result) |->
            IF i = 1 THEN DeleteNulls(result[i], DOMAIN result[1]) ELSE result[i]]
    ELSE result

\* keys = Object.keys(result[0]); result.forEach(... keys.forEach(...))
Normalize(result) ==
    IF Len(result) > 0
    THEN [i \in 1..Len(result) |-> DeleteNulls(result[i], DOMAIN result[1])]
    ELSE result

\* /^(SELECT|PRAGMA)/ig.test(prepared)
IsQuery(sql) == sql \in {"SELECT", "select", "PRAGMA"}

Pending == [pc |-> "pending", err |-> NoError, hasResult |-> FALSE, result |-> <<>>]

\* the engine answers the statement of execute and execute's callback runs
ExecuteCallback ==
    /\ returned = Pending
    /\ \E fail \in FaultChoices :
        /\ Spend(fail)
        /\ returned' =
              IF fail
              THEN [pc |-> "done", err |-> EngineError, hasResult |-> FALSE, result |-> <<>>]
              ELSE IF IsQuery(rows.sql)
                   THEN [pc |-> "done", err |-> NoError, hasResult |-> TRUE,
                         result |-> Normalize(rows.data)]
                   ELSE [pc |-> "done", err |-> NoError, hasResult |-> FALSE,
                         result |-> <<>>]
    /\ UNCHANGED <<formatted, increments, rows, connections, views>>
    /\ UNCHANGED <<tables, hasLedger, ledger, dbIndexes, supportMigrations, run, applied>>
    /\ UNCHANGED txVars

RowSet == [ResultKeys -> Values]

ResultSets == UNION {[1..n -> RowSet] : n \in 0..MaxRows}

InitEx ==
    /\ tables = [t \in TableNames |-> <<>>]
    /\ hasLedger = FALSE
    /\ ledger = <<>>
    /\ dbIndexes = <<>>
    /\ supportMigrations = FALSE
    /\ run = [p \in Procs |-> IdleRun]
    /\ faults = MaxFaults
    /\ applied = {}
    /\ TxIdle
    /\ rows \in [sql : {"SELECT", "select", "PRAGMA", "INSERT"}, data : ResultSets]
    /\ returned = Pending
    /\ connections = <<>>
    /\ views = {}
    /\ formatted = <<>>
    /\ increments = <<>>

NextEx == ExecuteCallback

SpecEx == InitEx /\ [][NextEx]_vars

\* C10: in every result execute hands to its callback, row by row, a column
\* whose stored value is NULL is not a key of the row and every other column is
\* a key with the stored value; no returned row maps a key to null.
C10_NullNormalization ==
    (returned.pc = "done" /\ returned.hasResult) =>
        /\ Len(returned.result) = Len(rows.data)
        /\ \A i \in 1..Len(rows.data) :
              /\ DOMAIN returned.result[i] = {k \in ResultKeys : rows.data[i][k] # Null}
              /\ \A k \in DOMAIN returned.result[i] :
                    returned.result[i][k] = rows.data[i][k] /\ returned.result[i][k] # Null

\* a result whose second row stores NULL in a column the first row does not
C10_Witness ==
    /\ returned.pc = "done" /\ returned.hasResult
    /\ Len(rows.data) = 2
    /\ rows.data[1]["a"] # Null /\ rows.data[2]["a"] = Null
    /\ "a" \notin DOMAIN returned.result[2]
    /\ "b" \in DOMAIN returned.result[2]

(***************************************************************************)
(* Connection manager: open, close and execute on one adapter instance     *)
(* connections[k] is the k-th sqlite3.Database object the adapter made:    *)
(* "opening" until the engine has answered the open, then "open" or        *)
(* "failed", and "closed" once the engine has closed it.  A request handed *)
(* to a Database that is still opening waits in its queue.  calls[c] is    *)
(* the frame of the c-th open / close / execute call.                      *)
(***************************************************************************)
ConnFrame(op) ==
    [op |-> op, pc |-> "start", conn |-> 0, made |-> FALSE, handle0 |-> rawConnection,
     err |-> NoError, cbCount |-> 0, handleAtCb |-> 0, executedOn |-> 0,
     faulted |-> FALSE, overlap |-> FALSE, early |-> FALSE]

InFlight(f) == f.pc \notin {"done", "crashed"}

\* the callback of the call is invoked with err while the handle is h
Returns(f, err, h) ==
    [f EXCEPT !.pc = "done", !.err = err, !.cbCount = @ + 1, !.handleAtCb = h]

\* if (self.rawConnection), with a handle that is never taken as held
HandleNeverHeld(h) == FALSE

\* if (self.rawConnection)
HandleHeld(h) == h # 0

\* the close callback that leaves the handle as it is
AfterCloseKeeps(h) == h

\* self.rawConnection = null in the callback of rawConnection.close
AfterClose(h) == 0

\* fn.call(self.rawConnection, prepared, [], ...): the statement is handed to
\* the Database the handle refers to; with a null handle the call throws
HandStatement(f, h) ==
    IF h = 0 THEN [f EXCEPT !.pc = "crashed", !.err = TypeErrorThrown]
    ELSE [f EXCEPT !.pc = "statement", !.conn = h]

\* the frames once call f has started: the calls in flight are overlapped
Begun(f) ==
    LET over == \E c \in 1..Len(calls) : InFlight(calls[c])
    IN Append([c \in 1..Len(calls) |->
                  IF InFlight(calls[c]) THEN [calls[c] EXCEPT !.overlap = TRUE]
                  ELSE calls[c]],
              [f EXCEPT !.overlap = over])

\* no Database the adapter made has been opened or refused yet
NoneAnswered == \A k \in 1..Len(connections) : connections[k].state = "opening"

\* new sqlite3.Database(...): the handle is assigned at once
NewDatabase(f) ==
    /\ connections' = Append(connections, [state |-> "opening"])
    /\ rawConnection' = Len(connections) + 1
    /\ calls' = Begun([f EXCEPT !.pc = "opening", !.conn = Len(connections) + 1,
                                !.made = TRUE])

\* open(callback)
OpenCall ==
    /\ Len(calls) < MaxCalls
    /\ IF HandleHeld(rawConnection)
       THEN /\ calls' = Begun(Returns(ConnFrame("open"), NoError, rawConnection))
            /\ UNCHANGED <<rawConnection, connections>>
       ELSE NewDatabase(ConnFrame("open"))
    /\ UNCHANGED <<transaction, engineTx, txLog, formatted, increments, rows, returned, views>>
    /\ UNCHANGED dbVars

\* execute(query, values, callback) up to the statement handed to the engine
ExecuteCall ==
    /\ Len(calls) < MaxCalls
    /\ LET f == [ConnFrame("execute") EXCEPT !.early = NoneAnswered]
       IN IF HandleHeld(rawConnection)
          THEN /\ calls' = Begun(HandStatement(f, rawConnection))
               /\ UNCHANGED <<rawConnection, connections>>
          ELSE NewDatabase(f)
    /\ UNCHANGED <<transaction, engineTx, txLog, formatted, increments, rows, returned, views>>
    /\ UNCHANGED dbVars

\* close(callback)
CloseCall ==
    /\ Len(calls) < MaxCalls
    /\ IF HandleHeld(rawConnection)
       THEN calls' = Begun([ConnFrame("close") EXCEPT !.pc = "closing",
                                                      !.conn = rawConnection])
       ELSE calls' = Begun(Returns(ConnFrame("close"), NoError, rawConnection))
    /\ UNCHANGED <<rawConnection, connections>>
    /\ UNCHANGED <<transaction, engineTx, txLog, formatted, increments, rows, returned, views>>
    /\ UNCHANGED dbVars

\* the frame of the call that made Database k, after the callback of
\* new sqlite3.Database has run; h is the handle the callback leaves
Opened(f, fail, h) ==
    IF fail THEN Returns([f EXCEPT !.faulted = TRUE], EngineError, h)
    ELSE IF f.op = "open" THEN Returns(f, NoError, h)
    ELSE HandStatement(f, h)

\* the engine answers the open of Database k.  When it refuses, the requests
\* waiting in the queue of k are either never answered (drop) or answered
\* later with an error.
DatabaseOpened(k) ==
    /\ connections[k].state = "opening"
    /\ \E fail \in FaultChoices, drop \in BOOLEAN :
        /\ Spend(fail)
        /\ (drop => fail)
        /\ connections' = [connections EXCEPT ![k].state = IF fail THEN "failed" ELSE "open"]
        /\ rawConnection' = IF fail THEN 0 ELSE rawConnection
        /\ calls' = [c \in 1..Len(calls) |->
                        IF calls[c].conn = k /\ calls[c].pc = "opening"
                        THEN Opened(calls[c], fail, IF fail THEN 0 ELSE rawConnection)
                        ELSE IF drop /\ calls[c].conn = k
                                     /\ calls[c].pc \in {"statement", "closing"}
                        THEN [calls[c] EXCEPT !.pc = "stuck"]
                        ELSE calls[c]]
    /\ UNCHANGED <<transaction, engineTx, txLog, formatted, increments, rows, returned, views>>
    /\ UNCHANGED <<tables, hasLedger, ledger, dbIndexes, supportMigrations, run, applied>>

\* the engine answers the statement of execute call c
StatementAnswered(c) ==
    /\ calls[c].pc = "statement"
    /\ connections[calls[c].conn].state # "opening"
    /\ \E fail \in FaultChoices :
        /\ Spend(fail)
        /\ (fail => connections[calls[c].conn].state = "open")
        /\ LET ok == ~fail /\ connections[calls[c].conn].state = "open"
           IN calls' = [calls EXCEPT ![c] =
                 IF ok THEN Returns([@ EXCEPT !.executedOn = calls[c].conn], NoError, rawConnection)
                 ELSE Returns([@ EXCEPT !.faulted = fail], EngineError, rawConnection)]
    /\ UNCHANGED <<rawConnection, connections>>
    /\ UNCHANGED <<transaction, engineTx, txLog, formatted, increments, rows, returned, views>>
    /\ UNCHANGED <<tables, hasLedger, ledger, dbIndexes, supportMigrations, run, applied>>

\* the engine answers the close of call c: the callback clears the handle
\* and reports no error, whatever the engine answered
DatabaseClosed(c) ==
    /\ calls[c].pc = "closing"
    /\ connections[calls[c].conn].state # "opening"
    /\ \E fail \in FaultChoices :
        /\ Spend(fail)
        /\ (fail => connections[calls[c].conn].state = "open")
        /\ connections' = [connections EXCEPT ![calls[c].conn].state =
                              IF @ = "open" /\ ~fail THEN "closed" ELSE @]
        /\ rawConnection' = AfterClose(rawConnection)
        /\ calls' = [calls EXCEPT ![c] =
                        Returns([@ EXCEPT !.faulted = fail], NoError,
                                AfterClose(rawConnection))]
    /\ UNCHANGED <<transaction, engineTx, txLog, formatted, increments, rows, returned, views>>
    /\ UNCHANGED <<tables, hasLedger, ledger, dbIndexes, supportMigrations, run, applied>>

InitConn ==
    /\ tables = [t \in TableNames |-> <<>>]
    /\ hasLedger = FALSE
    /\ ledger = <<>>
    /\ dbIndexes = <<>>
    /\ supportMigrations = FALSE
    /\ run = [p \in Procs |-> IdleRun]
    /\ faults = MaxFaults
    /\ applied = {}
    /\ TxIdle
    /\ ExIdle

NextConn ==
    \/ OpenCall
    \/ ExecuteCall
    \/ CloseCall
    \/ \E k \in 1..Len(connections) : DatabaseOpened(k)
    \/ \E c \in 1..Len(calls) : StatementAnswered(c)
    \/ \E c \in 1..Len(calls) : DatabaseClosed(c)

SpecConn == InitConn /\ [][NextConn]_vars

(***************************************************************************)
(* Properties of the connection manager                                    *)
(***************************************************************************)
\* the Databases that are physically open
OpenConnections == {k \in 1..Len(connections) : connections[k].state = "open"}

\* C12: an open() call, not overlapped by another call, that completes
\* without error finds the adapter holding a handle; and every open() call on
\* an adapter that already holds a handle invokes its callback at once,
\* without error, makes no Database and leaves the handle as it was.
C12_OpenIdempotent ==
    \A c \in 1..Len(calls) :
        calls[c].op = "open" =>
            /\ (calls[c].pc = "done" /\ calls[c].err = NoError /\ ~calls[c].overlap)
                    => calls[c].handleAtCb # 0
            /\ (calls[c].handle0 # 0) =>
                    /\ calls[c].pc = "done" /\ calls[c].cbCount = 1
                    /\ calls[c].err = NoError
                    /\ ~calls[c].made
                    /\ calls[c].handleAtCb = calls[c].handle0

\* open() has made the connection, and a second open() has returned on it
C12_Witness ==
    \E c, d \in 1..Len(calls) :
        /\ c < d
        /\ calls[c].op = "open" /\ calls[c].made /\ calls[c].pc = "done"
        /\ calls[c].err = NoError /\ ~calls[c].overlap
        /\ calls[d].op = "open" /\ calls[d].pc = "done" /\ calls[d].handle0 = calls[c].conn
        /\ Len(connections) = 1 /\ rawConnection = calls[c].conn

C14_SingleConnection ==
    /\ Cardinality(OpenConnections) <= 1
    /\ \A k \in OpenConnections : rawConnection = k

\* C14 with the engine never failing
C14_WithoutEngineFailure ==
    (faults = MaxFaults) => C14_SingleConnection

\* every call so far is an execute call made before any open was answered
BackToBack ==
    /\ Len(calls) >= 2
    /\ \A c \in 1..Len(calls) : calls[c].op = "execute" /\ calls[c].early

\* C15: execute calls issued back to back on an adapter without a connection
\* make exactly one Database; every call's callback is invoked at most once
\* and no call is left without an answer; with the open answered, the
\* statement of a call the engine does not fail is executed on that Database
\* and the call reports success; with the open refused every call that
\* returns reports an error.
C15_BackToBackExecute ==
    BackToBack =>
        /\ Len(connections) = 1
        /\ \A c \in 1..Len(calls) :
              /\ calls[c].cbCount <= 1
              /\ calls[c].pc \notin {"stuck", "crashed"}
              /\ (calls[c].pc = "done") => calls[c].cbCount = 1
              /\ (calls[c].pc = "done" /\ connections[1].state = "open" /\ ~calls[c].faulted)
                    => (calls[c].err = NoError /\ calls[c].executedOn = 1)
              /\ (calls[c].pc = "done" /\ connections[1].state = "failed")
                    => calls[c].err # NoError

\* C15 with the open answered
C15_OpenSucceeds ==
    (BackToBack /\ connections[1].state # "failed") => C15_BackToBackExecute

\* all the back-to-back calls have run their statements on the one Database
C15_ReachedAllExecuted ==
    /\ BackToBack
    /\ \A c \in 1..Len(calls) : calls[c].pc = "done" /\ calls[c].executedOn = 1

(***************************************************************************)
(* view(name): exists, drop and create, one call at a time                 *)
(* calls[c] is the frame of the c-th call; txLog holds every statement     *)
(* handed to the engine, with the call that issued it.  The engine keeps   *)
(* the views as they were at BEGIN (snapshot) and restores them when it    *)
(* executes ROLLBACK.                                                      *)
(***************************************************************************)
ViewNames == {"V", "W"}

\* calls of view(name) in one behaviour
MaxViewCalls == 3

\* the query of create: one the engine accepts, one it refuses, and one the
\* formatter throws on
Queries == {"good", "refused", "throws"}

FormatError == "formatter error"

ViewFrame(op, name, q) ==
    [op |-> op, name |-> name, q |-> q, pc |-> "start", joined |-> FALSE,
     uowErr |-> NoError, err |-> NoError, cbCount |-> 0,
     snapshot |-> {}, existed0 |-> (name \in views), result |-> FALSE,
     stmtFailed |-> FALSE, restored |-> FALSE]

\* the unit of work that starts with CREATE VIEW
ViewUowCreatesFirst(f) == [f EXCEPT !.pc = "createView"]

\* the unit of work of create starts: thisArg.drop(...)
ViewUow(f) == [f EXCEPT !.pc = "dropView"]

\* the continuation of the unit of work is invoked with e
ViewAfterUow(f, e) == AfterUow([f EXCEPT !.stmtFailed = (e # NoError)], e)

\* the callback of open, no error
ViewAfterOpen(f) ==
    IF f.op = "create"
    THEN IF AfterOpen(f).pc = "uow" THEN ViewUow(AfterOpen(f)) ELSE AfterOpen(f)
    ELSE IF f.op = "drop" THEN [f EXCEPT !.pc = "dropView"]
    ELSE [f EXCEPT !.pc = "existsQuery"]

\* the statement frame f has just handed to the engine, if any
ViewLogged(c, f) ==
    IF f.pc = "dropView" THEN Append(txLog, [stmt |-> "DROP VIEW", call |-> c])
    ELSE IF f.pc = "createView" THEN Append(txLog, [stmt |-> "CREATE VIEW", call |-> c])
    ELSE Logged(c, f)

\* view(name).exists / drop / create is called
ViewCall(op, name, q) ==
    /\ Len(calls) < MaxViewCalls
    /\ AllReturned
    /\ (op # "create") => q = "good"
    /\ LET c == Len(calls) + 1
           f == ViewFrame(op, name, q)
       IN IF rawConnection # 0
          THEN /\ calls' = Append(calls, ViewAfterOpen(f))
               /\ txLog' = ViewLogged(c, ViewAfterOpen(f))
               /\ UNCHANGED rawConnection
          ELSE /\ calls' = Append(calls, [f EXCEPT !.pc = "open"])
               /\ rawConnection' = 1
               /\ UNCHANGED txLog
    /\ UNCHANGED <<transaction, engineTx, formatted, increments, rows, returned, connections, views>>
    /\ UNCHANGED dbVars

\* the callback of new sqlite3.Database(...) runs
ViewOpenDone(c) ==
    /\ calls[c].pc = "open"
    /\ \E fail \in FaultChoices :
        /\ Spend(fail)
        /\ IF fail
           THEN /\ rawConnection' = 0
                /\ calls' = [calls EXCEPT ![c] = Return(@, EngineError)]
                /\ UNCHANGED txLog
           ELSE /\ calls' = [calls EXCEPT ![c] = ViewAfterOpen(@)]
                /\ txLog' = ViewLogged(c, ViewAfterOpen(calls[c]))
                /\ UNCHANGED rawConnection
    /\ UNCHANGED <<transaction, engineTx, formatted, increments, rows, returned, connections, views>>
    /\ UNCHANGED <<tables, hasLedger, ledger, dbIndexes, supportMigrations, run, applied>>

\* BEGIN TRANSACTION of create completes
ViewBeginDone(c) ==
    /\ calls[c].pc = "begin"
    /\ \E fail \in FaultChoices :
        /\ Spend(fail)
        /\ LET ok == ~fail /\ ~engineTx
               f2 == IF ok THEN ViewUow([calls[c] EXCEPT !.snapshot = views])
                     ELSE Return(calls[c], EngineError)
           IN /\ calls' = [calls EXCEPT ![c] = f2]
              /\ txLog' = ViewLogged(c, f2)
              /\ transaction' = (transaction \/ ok)
              /\ engineTx' = (engineTx \/ ok)
    /\ UNCHANGED <<rawConnection, formatted, increments, rows, returned, connections, views>>
    /\ UNCHANGED <<tables, hasLedger, ledger, dbIndexes, supportMigrations, run, applied>>

\* DROP VIEW IF EXISTS completes; create goes on to format and hand over
\* CREATE VIEW
DropViewDone(c) ==
    /\ calls[c].pc = "dropView"
    /\ \E fail \in FaultChoices :
        /\ Spend(fail)
        /\ LET f == calls[c]
               f2 == IF f.op = "drop"
                     THEN Return(f, IF fail THEN EngineError ELSE NoError)
                     ELSE IF fail THEN ViewAfterUow(f, EngineError)
                     ELSE IF f.q = "throws" THEN ViewAfterUow(f, FormatError)
                     ELSE [f EXCEPT !.pc = "createView"]
           IN /\ calls' = [calls EXCEPT ![c] = f2]
              /\ txLog' = ViewLogged(c, f2)
              /\ views' = IF fail THEN views ELSE views \ {f.name}
    /\ UNCHANGED <<rawConnection, transaction, engineTx, formatted, increments, rows, returned, connections>>
    /\ UNCHANGED <<tables, hasLedger, ledger, dbIndexes, supportMigrations, run, applied>>

\* CREATE VIEW completes
CreateViewDone(c) ==
    /\ calls[c].pc = "createView"
    /\ \E fail \in FaultChoices :
        /\ Spend(fail)
        /\ LET f == calls[c]
               ok == ~fail /\ f.q = "good" /\ f.name \notin views
               f2 == ViewAfterUow(f, IF ok THEN NoError ELSE EngineError)
           IN /\ calls' = [calls EXCEPT ![c] = f2]
              /\ txLog' = ViewLogged(c, f2)
              /\ views' = IF ok THEN views \cup {f.name} ELSE views
    /\ UNCHANGED <<rawConnection, transaction, engineTx, formatted, increments, rows, returned, connections>>
    /\ UNCHANGED <<tables, hasLedger, ledger, dbIndexes, supportMigrations, run, applied>>

\* COMMIT of create completes
ViewCommitDone(c) ==
    /\ calls[c].pc = "commit"
    /\ \E fail \in FaultChoices :
        /\ Spend(fail)
        /\ engineTx' = (engineTx /\ fail)
        /\ calls' = [calls EXCEPT ![c] = Return(@, IF fail THEN EngineError ELSE NoError)]
    /\ transaction' = FALSE
    /\ UNCHANGED <<rawConnection, txLog, formatted, increments, rows, returned, connections, views>>
    /\ UNCHANGED <<tables, hasLedger, ledger, dbIndexes, supportMigrations, run, applied>>

\* ROLLBACK of create completes: the engine restores the views unless it
\* fails; the callback gets the error of the unit of work
ViewRollbackDone(c) ==
    /\ calls[c].pc = "rollback"
    /\ \E fail \in FaultChoices :
        /\ Spend(fail)
        /\ engineTx' = (engineTx /\ fail)
        /\ views' = IF fail THEN views ELSE calls[c].snapshot
        /\ calls' = [calls EXCEPT ![c] = Return([@ EXCEPT !.restored = ~fail], @.uowErr)]
    /\ transaction' = FALSE
    /\ UNCHANGED <<rawConnection, txLog, formatted, increments, rows, returned, connections>>
    /\ UNCHANGED <<tables, hasLedger, ledger, dbIndexes, supportMigrations, run, applied>>

\* SELECT COUNT(*) ... type='view' of exists completes
ViewExistsDone(c) ==
    /\ calls[c].pc = "existsQuery"
    /\ \E fail \in FaultChoices :
        /\ Spend(fail)
        /\ calls' = [calls EXCEPT ![c] =
                        IF fail THEN Return(@, EngineError)
                        ELSE Return([@ EXCEPT !.result = (calls[c].name \in views)], NoError)]
    /\ UNCHANGED <<rawConnection, transaction, engineTx, txLog, formatted, increments, rows, returned,
                   connections, views>>
    /\ UNCHANGED <<tables, hasLedger, ledger, dbIndexes, supportMigrations, run, applied>>

NextView ==
    \/ \E op \in {"exists", "drop", "create"}, name \in ViewNames, q \in Queries :
            ViewCall(op, name, q)
    \/ \E c \in 1..Len(calls) : ViewOpenDone(c)
    \/ \E c \in 1..Len(calls) : ViewBeginDone(c)
    \/ \E c \in 1..Len(calls) : DropViewDone(c)
    \/ \E c \in 1..Len(calls) : CreateViewDone(c)
    \/ \E c \in 1..Len(calls) : ViewCommitDone(c)
    \/ \E c \in 1..Len(calls) : ViewRollbackDone(c)
    \/ \E c \in 1..Len(calls) : ViewExistsDone(c)

SpecView == InitTx /\ [][NextView]_vars

(***************************************************************************)
(* Properties of view(name)                                                *)
(***************************************************************************)
RECURSIVE StmtsOf(_, _)
\* the statements of call c in log, in the order they were handed over
StmtsOf(log, c) ==
    IF log = <<>> THEN <<>>
    ELSE IF Head(log).call = c THEN <<Head(log).stmt>> \o StmtsOf(Tail(log), c)
    ELSE StmtsOf(Tail(log), c)

IsPrefix(s, t) == Len(s) <= Len(t) /\ \A i \in 1..Len(s) : s[i] = t[i]

ReplaceCommitted == <<"BEGIN", "DROP VIEW", "CREATE VIEW", "COMMIT">>
ReplaceRolledBack == <<"BEGIN", "DROP VIEW", "CREATE VIEW", "ROLLBACK">>
DropRolledBack == <<"BEGIN", "DROP VIEW", "ROLLBACK">>

\* call c is the latest call and has returned
JustReturned(c) == c = Len(calls) /\ calls[c].pc = "done"

\* C18: view(name).create(query) hands BEGIN, DROP VIEW IF EXISTS, CREATE VIEW
\* to the engine in that order; when both statements succeed COMMIT follows
\* and, with no error returned, the view exists; when the drop, the formatting
\* or the CREATE VIEW fails ROLLBACK follows, the error is returned, and a view
\* of that name that existed before exists again once the engine has rolled
\* back.  exists() answers false when no create of that name was ever called
\* and right after a successful drop of that name.
C18_ViewCreateAtomic ==
    \A c \in 1..Len(calls) :
        LET f == calls[c]
            s == StmtsOf(txLog, c)
        IN /\ f.op = "create" =>
                /\ \/ IsPrefix(s, ReplaceCommitted)
                   \/ IsPrefix(s, ReplaceRolledBack)
                   \/ IsPrefix(s, DropRolledBack)
                /\ (f.pc \in {"commit", "done"} /\ Len(s) >= 3
                        /\ s[3] = "CREATE VIEW" /\ ~f.stmtFailed) =>
                        /\ s = ReplaceCommitted
                        /\ JustReturned(c) => f.name \in views
                /\ (f.pc = "done" /\ f.err = NoError) =>
                        /\ s = ReplaceCommitted
                        /\ JustReturned(c) => f.name \in views
                /\ f.stmtFailed =>
                        /\ s \in {ReplaceRolledBack, DropRolledBack}
                        /\ f.pc = "done" => f.err # NoError
                        /\ (JustReturned(c) /\ f.restored /\ f.existed0) =>
                                f.name \in views
           /\ (f.op = "exists" /\ f.pc = "done" /\ f.err = NoError) =>
                /\ (\A k \in 1..(c - 1) :
                        ~(calls[k].op = "create" /\ calls[k].name = f.name))
                        => ~f.result
                /\ (c > 1 /\ calls[c - 1].op = "drop" /\ calls[c - 1].name = f.name
                        /\ calls[c - 1].err = NoError) => ~f.result

\* a view is created, a second create of the same name fails at one of its
\* statements and is rolled back, and the view is there when it returns
C18_Witness ==
    /\ Len(calls) = 2
    /\ calls[1].op = "create" /\ calls[1].pc = "done" /\ calls[1].err = NoError
    /\ calls[2].op = "create" /\ calls[2].name = calls[1].name
    /\ calls[2].pc = "done" /\ calls[2].stmtFailed /\ calls[2].restored
    /\ calls[2].existed0 /\ calls[2].err = EngineError
    /\ StmtsOf(txLog, 2) = ReplaceRolledBack
    /\ calls[2].name \in views

(***************************************************************************)
(* formatType applied to a field definition                                *)
(* formatted is <<>> or [field, text, done]: text is what formatType       *)
(* returned for field once done.                                           *)
(***************************************************************************)
MaxSize == 2
MaxScale == 2

\* the logical types formatType distinguishes, and one it does not know
FieldTypes ==
    {"Boolean", "Byte", "Number", "Float", "Counter", "Currency", "Decimal",
     "Date", "DateTime", "Time", "Long", "Duration", "Integer", "URL", "Text",
     "Note", "Image", "Binary", "Guid", "Short", "Json"}

FieldDefinitions ==
    {[Field("F", t, sz, n, p) EXCEPT !.scale = sc] :
        t \in FieldTypes, sz \in 0..MaxSize, sc \in 0..MaxScale,
        n \in {"undefined", "true", "false"}, p \in BOOLEAN}

InitFmt ==
    /\ tables = [t \in TableNames |-> <<>>]
    /\ hasLedger = FALSE
    /\ ledger = <<>>
    /\ dbIndexes = <<>>
    /\ supportMigrations = FALSE
    /\ run = [p \in Procs |-> IdleRun]
    /\ faults = MaxFaults
    /\ applied = {}
    /\ TxIdle
    /\ rows = <<>>
    /\ returned = <<>>
    /\ connections = <<>>
    /\ views = {}
    /\ formatted \in [field : FieldDefinitions, text : {""}, done : {FALSE}]
    /\ increments = <<>>

\* SqliteAdapter.formatType(field) returns
FormatType ==
    /\ ~formatted.done
    /\ formatted' = [formatted EXCEPT !.text = formatType(formatted.field), !.done = TRUE]
    /\ UNCHANGED <<rows, returned, connections, views, increments>>
    /\ UNCHANGED dbVars
    /\ UNCHANGED txVars

NextFmt == FormatType

SpecFmt == InitFmt /\ [][NextFmt]_vars

EndsWith(s, t) == Len(s) >= Len(t) /\ SubSeq(s, Len(s) - Len(t) + 1, Len(s)) = t

PrimaryKeySuffix == " PRIMARY KEY NOT NULL"

\* the text is the type text followed by ' PRIMARY KEY NOT NULL' and nothing
\* else
PrimaryKeyOnly(field, text) ==
    /\ EndsWith(text, PrimaryKeySuffix)
    /\ LET b == BaseType(field)
       IN SubSeq(text, 1, Len(text) - Len(PrimaryKeySuffix)) = TypeText(b.word, b.args)
    /\ ~EndsWith(SubSeq(text, 1, Len(text) - Len(PrimaryKeySuffix)), " NULL")

\* C19: for every field definition with primary = true whose type is not
\* Counter, whatever its size, scale and nullable, the text formatType returns
\* is the type text followed by ' PRIMARY KEY NOT NULL', with no ' NULL' or
\* ' NOT NULL' suffix of its own.
C19_PrimarySuffix ==
    (formatted # <<>> /\ formatted.done /\ formatted.field.primary
        /\ formatted.field.type # "Counter") =>
        PrimaryKeyOnly(formatted.field, formatted.text)

\* formatType has returned for a sized primary field declared not nullable
C19_Witness ==
    /\ formatted # <<>> /\ formatted.done
    /\ formatted.field.primary /\ formatted.field.type = "Text"
    /\ formatted.field.size = 2 /\ formatted.field.nullable = "false"
    /\ formatted.text = "TEXT(2,0) PRIMARY KEY NOT NULL"

\* C19 as stated, for every logical type: every field definition with
\* primary = true gets a text ending with 'PRIMARY KEY NOT NULL'
C19_Original ==
    (formatted # <<>> /\ formatted.done /\ formatted.field.primary) =>
        /\ EndsWith(formatted.text, "PRIMARY KEY NOT NULL")
        /\ ~EndsWith(SubSeq(formatted.text, 1,
                            Len(formatted.text) - Len(PrimaryKeySuffix)), " NULL")

\* C20: for every field definition of type Counter, whatever its nullable,
\* primary, size and scale, formatType returns exactly
\* 'INTEGER PRIMARY KEY AUTOINCREMENT NOT NULL'.
C20_CounterExact ==
    (formatted # <<>> /\ formatted.done /\ formatted.field.type = "Counter") =>
        formatted.text = "INTEGER PRIMARY KEY AUTOINCREMENT NOT NULL"

\* formatType has returned for a Counter that is primary, sized, scaled and
\* declared nullable
C20_Witness ==
    /\ formatted # <<>> /\ formatted.done
    /\ formatted.field.type = "Counter" /\ formatted.field.primary
    /\ formatted.field.size = 2 /\ formatted.field.scale = 1
    /\ formatted.field.nullable = "true"

\* the logical types formatType has a case for
RecognizedTypes == FieldTypes \ {"Json"}

\* C21: formatType returns a text for every field definition, and for a type
\* it has no case for the text is 'INTEGER' followed by ' PRIMARY KEY NOT NULL'
\* for a primary field, else by ' NULL' when nullable is absent or true and by
\* ' NOT NULL' when it is false; size and scale play no part.
C21_UnknownTypeIsInteger ==
    (formatted # <<>> /\ formatted.done) =>
        /\ Len(formatted.text) > 0
        /\ formatted.field.type \notin RecognizedTypes =>
            formatted.text =
                "INTEGER" \o (IF formatted.field.primary THEN " PRIMARY KEY NOT NULL"
                              ELSE IF formatted.field.nullable \in {"undefined", "true"}
                              THEN " NULL" ELSE " NOT NULL")

\* formatType has returned for a sized field of an unknown type declared not
\* nullable
C21_Witness ==
    /\ formatted # <<>> /\ formatted.done
    /\ formatted.field.type = "Json" /\ ~formatted.field.primary
    /\ formatted.field.size = 2 /\ formatted.field.nullable = "false"
    /\ formatted.text = "INTEGER NOT NULL"

(***************************************************************************)
(* The transaction marker and the errors of executeInTransaction           *)
(***************************************************************************)
\* the statements stmt call c has handed to the engine
IssuedBy(c, stmt) ==
    Cardinality({i \in 1..Len(txLog) : txLog[i].stmt = stmt /\ txLog[i].call = c})

\* C22: in every reachable state the marker is set exactly when the engine
\* holds a transaction of this adapter: a BEGIN that succeeded and that no
\* COMMIT or ROLLBACK the engine executed has ended.
C22_MarkerIffOutstanding == transaction <=> engineTx

\* the marker, when set, has a transaction of the engine behind it
MarkerImpliesOutstanding == transaction => engineTx

\* call c, made outside every unit of work, has got past open
PastOpen(c) == ~Nested(c) /\ calls[c].pc \in {"begin", "uow", "commit", "rollback"}

\* the step in which BEGIN of a call made outside every unit of work completes
BeginCompletes(c) ==
    /\ c \in 1..Len(calls) /\ ~Nested(c)
    /\ calls[c].pc = "begin" /\ calls'[c].pc # "begin"

\* once every call has returned the marker is clear
MarkerClearAtRest == AllReturned => ~transaction

\* a call made outside every unit of work never joins and hands over its own
\* BEGIN once the connection is open
OwnBegin ==
    \A c \in 1..Len(calls) :
        ~Nested(c) =>
            /\ ~calls[c].joined
            /\ PastOpen(c) => IssuedBy(c, "BEGIN") = 1
            /\ (IssuedBy(c, "COMMIT") + IssuedBy(c, "ROLLBACK") > 0)
                    => IssuedBy(c, "BEGIN") = 1

\* BEGIN the engine has executed sets the marker and starts the unit of work;
\* BEGIN that failed leaves the marker clear and returns the error with no
\* unit of work
BeginOutcome ==
    \A c \in 1..Len(calls) :
        BeginCompletes(c) =>
            IF ~engineTx /\ engineTx'
            THEN transaction' /\ calls'[c].pc = "uow"
            ELSE /\ ~transaction'
                 /\ calls'[c].pc = "done" /\ calls'[c].err # NoError
                 /\ calls'[c].cbCount = 1 /\ calls'[c].uowErr = NoError

\* C23: when every call of executeInTransaction has invoked its callback the
\* marker is clear, whatever the unit of work, COMMIT or ROLLBACK answered; a
\* call made outside every unit of work therefore hands over its own BEGIN;
\* when that BEGIN fails the marker stays clear and the unit of work is not run.
C23_MarkerClearAfterReturn ==
    /\ [](MarkerClearAtRest /\ OwnBegin)
    /\ [][BeginOutcome]_vars

\* a first call has returned with its COMMIT or ROLLBACK refused, and the
\* second call has handed over its own BEGIN, which failed: no unit of work,
\* the marker is clear
C23_Witness ==
    /\ Len(calls) = 2 /\ AllReturned
    /\ ~Nested(1) /\ ~Nested(2)
    /\ IssuedBy(1, "COMMIT") + IssuedBy(1, "ROLLBACK") = 1
    /\ engineTx /\ ~transaction
    /\ IssuedBy(2, "BEGIN") = 1
    /\ IssuedBy(2, "COMMIT") + IssuedBy(2, "ROLLBACK") = 0
    /\ calls[2].err # NoError

\* C24: when the unit of work of a call made outside every unit of work
\* reports error E, ROLLBACK is handed to the engine, the callback is not
\* invoked while it is in flight, and once it has completed, refused or not,
\* the callback is invoked once with E.
C24_RollbackKeepsError ==
    \A c \in 1..Len(calls) :
        (~Nested(c) /\ calls[c].uowErr # NoError) =>
            /\ calls[c].pc \in {"rollback", "done"}
            /\ IssuedBy(c, "ROLLBACK") = 1
            /\ calls[c].pc = "rollback" => calls[c].cbCount = 0
            /\ calls[c].pc = "done" =>
                    calls[c].err = calls[c].uowErr /\ calls[c].cbCount = 1

\* the unit of work failed, the engine refused ROLLBACK (its transaction is
\* still open), and the callback got the error of the unit of work
C24_Witness ==
    /\ Len(calls) = 1 /\ calls[1].pc = "done"
    /\ calls[1].uowErr = UnitFailed /\ calls[1].err = UnitFailed
    /\ IssuedBy(1, "ROLLBACK") = 1
    /\ engineTx /\ faults < MaxFaults

(***************************************************************************)
(* Failures of migrate                                                     *)
(***************************************************************************)
\* a stage of the migrate call r has failed: the engine refused one of its
\* statements, a stage reported an error, or a callback threw
StageFailed(r) ==
    /\ r.op = "migrate"
    /\ \/ r.faulted
       \/ r.pc = "crashed"
       \/ r.pc = "done" /\ r.err # NoError

\* what C25 says of a call one of whose stages has failed
FailedFast(r) ==
    /\ r.pc = "done"
    /\ r.cbCount = 1
    /\ r.err # NoError
    /\ r.faulted => r.err = EngineError
    /\ ~r.overlap => ledger = r.ledger0

\* C25: when a stage of migrate fails, the call has returned: its callback
\* has been invoked exactly once, with the error of that stage, and the call
\* has written no ledger row.
C25_FailFast ==
    \A p \in Procs : StageFailed(run[p]) => FailedFast(run[p])

\* C25 for the failures that are reported as an error
FailFastWithoutThrow ==
    \A p \in Procs :
        (StageFailed(run[p]) /\ run[p].pc # "crashed") => FailedFast(run[p])

\* the callback in which a stage fails hands no statement to the engine and
\* writes nothing
FailingStepIssuesNothing ==
    [][\A p \in Procs :
          (run[p].op = "migrate" /\ run'[p].op = "migrate" /\ Active(run[p])
              /\ StageFailed(run'[p]) /\ ~StageFailed(run[p])) =>
              /\ run'[p].issued = run[p].issued
              /\ ledger' = ledger /\ tables' = tables /\ dbIndexes' = dbIndexes]_vars

\* C26: when a migrate call that ran alone has returned an error, the
\* columns of its table, the indexes and the rows of the ledger are what they
\* were when the call started.
C26_TransactionallySafe ==
    \A p \in Procs :
        (Finished(run[p]) /\ run[p].err # NoError /\ ~run[p].overlap) =>
            /\ tables[run[p].table] = run[p].live0
            /\ dbIndexes = run[p].ix0
            /\ ledger = run[p].ledger0

\* C26 for the calls that fail before their first CREATE / ALTER / index
\* statement has been executed
SafeBeforeFirstStatement ==
    \A p \in Procs :
        (Finished(run[p]) /\ run[p].err # NoError /\ ~run[p].overlap
            /\ run[p].executed = 0 /\ Ops(run[p]) \cap {"CREATE INDEX"} = {}) =>
            /\ tables[run[p].table] = run[p].live0
            /\ dbIndexes = run[p].ix0
            /\ ledger = run[p].ledger0

(***************************************************************************)
(* Two adapter instances of one process, bound to different databases      *)
(* The catalog variables are the database of this instance; of the other   *)
(* instance only what it does to the state shared by the process is kept:  *)
(* the static flag SqliteAdapter.supportMigrations.                        *)
(***************************************************************************)
\* a migrate call of the other instance, on its own database without a
\* migrations table, gets through stage 2: CREATE TABLE migrations succeeds
\* there and the static flag is set
CreateLedgerElsewhere ==
    /\ ~Crashed
    /\ ~supportMigrations
    /\ \A q \in Procs : ~Active(run[q])
    /\ supportMigrations' = TRUE
    /\ UNCHANGED <<tables, hasLedger, ledger, dbIndexes, run, faults, applied>>
    /\ UNCHANGED <<txVars, exVars>>

NextDb ==
    \/ CreateLedgerElsewhere
    \/ \E p \in Procs, d \in PlainDescriptors : MigrateStart(p, d)
    \/ \E p \in Procs : LedgerExists(p)
    \/ \E p \in Procs : CreateLedger(p)
    \/ \E p \in Procs : Version(p)
    \/ \E p \in Procs : TableExists(p)
    \/ \E p \in Procs : Columns(p)
    \/ \E p \in Procs : CreateTable(p)
    \/ \E p \in Procs : Alter(p)
    \/ \E p \in Procs : Insert(p)

SpecDb == Init /\ [][NextDb]_vars

\* C27: whenever a migrate call has handed the version query to the engine,
\* the migrations table exists in the database of its instance, also after
\* an instance bound to another database has run a migration.
C27_LedgerEnsured ==
    \A p \in Procs :
        (run[p].op = "migrate" /\ "SELECT MAX(version)" \in Ops(run[p])) => hasLedger

(***************************************************************************)
(* The ledger write and the order of the statements of migrate             *)
(***************************************************************************)
\* the statements of call r handed to the engine and not yet answered
Unanswered(r) == Len(r.issued) - Len(r.answered)

\* the row migrate writes for the descriptor d
RowOf(d) ==
    [appliesTo |-> d.appliesTo, model |-> d.model, version |-> d.version,
     description |-> d.description]

\* C28: a migrate call has at most one statement in flight; it hands over
\* INSERT INTO migrations at most once, as its last statement, after every
\* statement before it has been answered and every CREATE TABLE, ALTER TABLE
\* and index statement among them has been executed; a call that ran alone and
\* whose INSERT was executed has added exactly one row, holding appliesTo,
\* model, version and description of its descriptor.
C28_LedgerWrite ==
    \A p \in Procs :
        LET r == run[p]
            n == Len(r.issued)
        IN r.op = "migrate" =>
            /\ Unanswered(r) \in {0, 1}
            /\ Unanswered(r) = 1 <=> Active(r)
            /\ "INSERT INTO migrations" \in Ops(r) =>
                /\ CountOp(r, "INSERT INTO migrations") = 1
                /\ r.issued[n].op = "INSERT INTO migrations"
                /\ Len(r.answered) >= n - 1
                /\ \A i \in 1..(n - 1) : r.issued[i].op \in DDLOps => r.answered[i]
                /\ (Len(r.answered) = n /\ r.answered[n] /\ ~r.overlap) =>
                        ledger = Append(r.ledger0, RowOf(r.given))
            /\ (r.pc = "done" /\ ~r.overlap /\ ledger # r.ledger0) =>
                    /\ "INSERT INTO migrations" \in Ops(r)
                    /\ ledger = Append(r.ledger0, RowOf(r.given))

\* a call that ran alone has added columns, created an index and then
\* written its row
C28_Witness ==
    \E p \in Procs :
        LET r == run[p]
        IN /\ Finished(r) /\ r.err = NoError /\ ~r.overlap
           /\ CountOp(r, "ALTER TABLE ADD COLUMN") >= 1
           /\ CountOp(r, "CREATE INDEX") = 1
           /\ r.issued[Len(r.issued)].op = "INSERT INTO migrations"
           /\ ledger = Append(r.ledger0, RowOf(r.given))
           /\ Len(ledger) = 2

(***************************************************************************)
(* The add and change lists on the alter path                              *)
(***************************************************************************)
\* an add entry of the descriptor names a live non-primary column whose
\* mapped type text differs from the live type, upper-cased, with its
\* nullability
AddMismatch(r) ==
    \E i \in 1..Len(r.given.add) :
        LET k == FindIndex(r.columns, r.given.add[i].name)
        IN k > 0 /\ ~r.columns[k].primary
                 /\ formatT(r.given.add[i]) # oldTypeOf(r.columns[k])

\* C29: on the alter path, an add entry that names a live non-primary column
\* with a different mapped type text makes migrate return the 'full table
\* migration' error with no ALTER TABLE, index statement or ledger INSERT
\* handed over, whatever the other add entries are; without such an entry no
\* ALTER TABLE is handed over for a live column (primary, or of the same type
\* text) and the call does not fail with that error.
C29_AddListReconciled ==
    \A p \in Procs :
        LET r == run[p]
        IN OnAlterPath(r) =>
            IF AddMismatch(r)
            THEN /\ r.pc = "done" /\ r.err = FullMigrationError /\ r.cbCount = 1
                 /\ Ops(r) \cap DDLOps = {}
                 /\ "INSERT INTO migrations" \notin Ops(r)
            ELSE /\ \A i \in 1..Len(r.issued) :
                        r.issued[i].op = "ALTER TABLE ADD COLUMN"
                            => r.issued[i].name \notin Names(r.columns)
                 /\ r.err # FullMigrationError

\* the add list names live column B with another type and the new column C:
\* the call has failed with no statement for either
C29_Witness ==
    \E p \in Procs :
        /\ Finished(run[p]) /\ OnAlterPath(run[p]) /\ AddMismatch(run[p])
        /\ run[p].given.add = <<fBi, fC>>
        /\ run[p].err = FullMigrationError
        /\ Names(run[p].columns) = {"A", "B"}

\* a change entry of the descriptor names a column that is not live
ChangeNamesAbsent(r) ==
    /\ Has(r.given, "change")
    /\ \E i \in 1..Len(r.given.change) :
          FindIndex(r.columns, r.given.change[i].name) = 0

\* C30: on the alter path, for every change entry naming a column that is
\* not live, a call that ran alone and met no engine failure has handed over
\* exactly one ALTER TABLE ... ADD COLUMN for that column; a change entry
\* naming a live primary column brings no statement and no error.
C30_ChangeReclassified ==
    \A p \in Procs :
        LET r == run[p]
        IN (Finished(r) /\ OnAlterPath(r) /\ Has(r.given, "change")
                /\ ~r.faulted /\ ~r.overlap /\ ~AddMismatch(r)) =>
            \A i \in 1..Len(r.given.change) :
                LET x == r.given.change[i]
                    k == FindIndex(r.columns, x.name)
                IN /\ k = 0 =>
                        Cardinality({j \in 1..Len(r.issued) :
                                        /\ r.issued[j].op = "ALTER TABLE ADD COLUMN"
                                        /\ r.issued[j].name = x.name}) = 1
                   /\ (k > 0 /\ r.columns[k].primary) =>
                        /\ \A j \in 1..Len(r.issued) :
                              r.issued[j].op = "ALTER TABLE ADD COLUMN"
                                  => r.issued[j].name # x.name
                        /\ r.err # FullMigrationError

(***************************************************************************)
(* The alter path with nothing to add                                      *)
(***************************************************************************)
\* the call is on the alter path and every add entry of its descriptor names
\* a live column, primary or of the same type text: none survives
NoOpAlter(r) ==
    /\ OnAlterPath(r)
    /\ ~AddMismatch(r)
    /\ \A i \in 1..Len(r.given.add) : FindIndex(r.columns, r.given.add[i].name) > 0

\* every index entry of descriptor d is an index of the catalog
IndexesPresent(d) ==
    Has(d, "indexes") =>
        \A i \in 1..Len(d.indexes) : FindIx(dbIndexes, d.indexes[i].name) # 0

\* C31: a migrate call on the alter path none of whose add entries survives
\* hands over no ALTER TABLE; when it ran alone, met no engine failure and its
\* index stage returned, it has succeeded, its index entries are in the
\* catalog, the ledger holds one more row, for its descriptor, table(appliesTo)
\* .version is the descriptor's version, and updated is not set.
C31_NoOpAlter ==
    \A p \in Procs :
        LET r == run[p]
        IN NoOpAlter(r) =>
            /\ CountOp(r, "ALTER TABLE ADD COLUMN") = 0
            /\ (r.pc = "done" /\ ~r.faulted /\ ~r.overlap) =>
                /\ r.err = NoError
                /\ IndexesPresent(r.given)
                /\ ledger = Append(r.ledger0, RowOf(r.given))
                /\ version(ledger, r.table) = r.given.version
                /\ ~r.migration.updated

\* a call whose add list names the live columns A (primary) and B (same
\* type) has created the index of its descriptor and written its row
C31_Witness ==
    \E p \in Procs :
        LET r == run[p]
        IN /\ Finished(r) /\ NoOpAlter(r) /\ ~r.faulted /\ ~r.overlap
           /\ r.given.add = <<fA, fB>>
           /\ CountOp(r, "CREATE INDEX") = 1
           /\ r.err = NoError /\ ~r.migration.updated
           /\ version(ledger, r.table) = V20

(***************************************************************************)
(* Fields flagged oneToMany                                                *)
(***************************************************************************)
\* the names of the add entries of descriptor d flagged oneToMany
ToManyNames(d) == {d.add[i].name : i \in {j \in 1..Len(d.add) : d.add[j].oneToMany}}

\* C32: no migrate call hands over an ALTER TABLE ... ADD COLUMN for an add
\* entry flagged oneToMany, and no such field is a column of the table.
C32_ToManyNeverMaterialized ==
    \A p \in Procs :
        run[p].op = "migrate" =>
            /\ \A i \in 1..Len(run[p].issued) :
                  run[p].issued[i].op = "ALTER TABLE ADD COLUMN"
                      => run[p].issued[i].name \notin ToManyNames(run[p].given)
            /\ Names(tables[run[p].table]) \cap ToManyNames(run[p].given) = {}

\* C32 on the create path
ToManyNotCreated ==
    \A p \in Procs :
        (CreatePath(run[p]) /\ ~run[p].overlap) =>
            Names(tables[run[p].table]) \cap ToManyNames(run[p].given) = {}


(***************************************************************************)
(* migrate over dotted versions whose numeric and textual orders differ    *)
(***************************************************************************)
V19 == <<"1", ".", "9">>
V110 == <<"1", ".", "1", "0">>

DottedVersions == {V10, V19, V110, V20}

\* a database whose ledger holds one version of T, or nothing at all
DottedCatalogs ==
    { [tables |-> [t \in TableNames |-> ColumnDefs(<<fA, fB>>)], hasLedger |-> TRUE,
       ledger |-> <<LedgerRow("T", l)>>, dbIndexes |-> <<>>] : l \in DottedVersions }
        \cup {c \in Catalogs : ~c.hasLedger}

DottedDescriptors ==
    { Descriptor(d, <<fC>>, <<>>, <<>>, <<>>, {"change", "remove", "indexes"}) :
        d \in DottedVersions }

InitDotted ==
    /\ \E c \in DottedCatalogs :
        /\ tables = c.tables
        /\ hasLedger = c.hasLedger
        /\ ledger = c.ledger
        /\ dbIndexes = c.dbIndexes
    /\ supportMigrations = FALSE
    /\ run = [p \in Procs |-> IdleRun]
    /\ faults = MaxFaults
    /\ applied = {}
    /\ TxIdle
    /\ ExIdle

NextDotted ==
    \/ \E p \in Procs, d \in DottedDescriptors : MigrateStart(p, d)
    \/ \E p \in Procs : LedgerExists(p)
    \/ \E p \in Procs : CreateLedger(p)
    \/ \E p \in Procs : Version(p)
    \/ \E p \in Procs : TableExists(p)
    \/ \E p \in Procs : Columns(p)
    \/ \E p \in Procs : CreateTable(p)
    \/ \E p \in Procs : Alter(p)
    \/ \E p \in Procs : Insert(p)

SpecDotted == InitDotted /\ [][NextDotted]_vars

\* the number a run of decimal digits denotes
RECURSIVE DigitsValue(_, _)
DigitsValue(s, acc) ==
    IF s = <<>> THEN acc
    ELSE DigitsValue(Tail(s), acc * 10 + (CharCode(Head(s)) - 48))

DotAt(v) == CHOOSE i \in 1..Len(v) : v[i] = "."

Major(v) == DigitsValue(SubSeq(v, 1, DotAt(v) - 1), 0)

Minor(v) == DigitsValue(SubSeq(v, DotAt(v) + 1, Len(v)), 0)

\* a >= b in the numeric order of major.minor versions
NumGE(a, b) == Major(a) > Major(b) \/ (Major(a) = Major(b) /\ Minor(a) >= Minor(b))

\* the call took the descriptor for applied: updated is set and no statement
\* changed the schema of the table
Skipped(r) ==
    /\ r.migration.updated
    /\ \A i \in 1..Len(r.issued) :
          r.issued[i].op \in DDLOps => r.issued[i] = Stmt("CREATE TABLE", "migrations")

\* a call that ran alone to a return without error
RanAlone(r) == Finished(r) /\ ~r.faulted /\ ~r.overlap /\ r.err = NoError

\* C33: for every live version L and descriptor version D of a bounded set
\* of major.minor versions, migrate skips the descriptor (no DDL, updated =
\* true) exactly when L is numerically greater than or equal to D; a
\* descriptor numerically newer than the live version (live 1.9, descriptor
\* 1.10) is applied.
C33_NumericOrder ==
    \A p \in Procs :
        RanAlone(run[p]) =>
            (Skipped(run[p]) <=>
                NumGE(version(run[p].ledger0, run[p].table), run[p].given.version))

\* what the code decides by: the order of the two version texts
TextualOrder ==
    \A p \in Procs :
        RanAlone(run[p]) =>
            (Skipped(run[p]) <=>
                StrGE(version(run[p].ledger0, run[p].table), run[p].given.version))

\* the two orders agree on every pair of the set but (1.9, 1.10)
OrdersDifferOnlyOnWidth ==
    \A a, b \in DottedVersions :
        (NumGE(a, b) # StrGE(a, b)) => {a, b} = {V19, V110}


(***************************************************************************)
(* The status handed from stage to stage                                   *)
(***************************************************************************)
\* C34: the 'Invalid table status' error is unreachable: in every execution
\* of migrate the status handed to the reconcile stage is one of -1, 0 and 1,
\* and the status handed to the index and ledger stages is one of -1, 1 and 2.
C34_StatusValid ==
    \A p \in Procs :
        run[p].op = "migrate" =>
            /\ run[p].err # InvalidStatusError
            /\ Len(run[p].handed) >= 1 => run[p].handed[1] \in {-1, 0, 1}
            /\ \A i \in 2..Len(run[p].handed) : run[p].handed[i] \in {-1, 1, 2}

\* a call that went through the three stages with statuses 1, 2 and 1: the
\* table existed and no column was to add
C34_Witness ==
    \E p \in Procs : Finished(run[p]) /\ run[p].handed = <<1, 2, 1>>

\* the other runs through the three stages: skipped, created, altered
StatusPaths ==
    \A p \in Procs :
        (Finished(run[p]) /\ Len(run[p].handed) = 3) =>
            run[p].handed \in {<<-1, -1, -1>>, <<0, 1, 1>>, <<1, 1, 1>>, <<1, 2, 1>>}


(***************************************************************************)
(* executeInTransaction, calls that overlap without being nested           *)
(* The unit of work of a call executes statements through the adapter;     *)
(* stmts records, statement by statement, whether the engine had a         *)
(* transaction open when it executed the statement.                        *)
(***************************************************************************)
MaxStmts == 2
MaxOverlap == 2

\* executeInTransaction(fn, callback) called from outside every unit of
\* work while other calls may be in progress
ExecuteInTransactionMeanwhile ==
    /\ Len(calls) < MaxOverlap
    /\ LET c == Len(calls) + 1
       IN IF rawConnection # 0
          THEN /\ calls' = Append(calls, AfterOpen(Frame(0)))
               /\ txLog' = Logged(c, AfterOpen(Frame(0)))
               /\ UNCHANGED rawConnection
          ELSE /\ calls' = Append(calls, [Frame(0) EXCEPT !.pc = "open"])
               /\ rawConnection' = 1
               /\ UNCHANGED txLog
    /\ UNCHANGED <<transaction, engineTx>>
    /\ UNCHANGED <<dbVars, exVars>>

\* the engine executes a statement that the unit of work of call c handed
\* to execute
UowStatement(c) ==
    /\ calls[c].pc = "uow"
    /\ Len(calls[c].stmts) < MaxStmts
    /\ calls' = [calls EXCEPT ![c].stmts = Append(@, engineTx)]
    /\ UNCHANGED <<rawConnection, transaction, engineTx, txLog>>
    /\ UNCHANGED <<dbVars, exVars>>

NextOverlap ==
    \/ ExecuteInTransactionMeanwhile
    \/ \E c \in 1..Len(calls) : OpenDone(c)
    \/ \E c \in 1..Len(calls) : BeginDone(c)
    \/ \E c \in 1..Len(calls) : UowStatement(c)
    \/ \E c \in 1..Len(calls) : \E e \in {NoError, UnitFailed} : UowReturns(c, e)
    \/ \E c \in 1..Len(calls) : RollbackDone(c)
    \/ \E c \in 1..Len(calls) : CommitDone(c)

SpecOverlap == InitTx /\ [][NextOverlap]_vars

\* C35: every statement that a unit of work passed to executeInTransaction
\* executes is executed while the engine has a transaction open that this
\* adapter began and has not yet committed or rolled back, also when two
\* executeInTransaction calls on the same instance overlap in time without
\* one being nested in the other.
C35_StatementsInTransaction ==
    \A c \in 1..Len(calls) :
        \A i \in 1..Len(calls[c].stmts) : calls[c].stmts[i]

\* a call that began the transaction itself executes its statements in it
\* as long as no other call has joined
OwnStatementsInTransaction ==
    \A c \in 1..Len(calls) :
        (~calls[c].joined /\ \A k \in 1..Len(calls) : ~calls[k].joined) =>
            \A i \in 1..Len(calls[c].stmts) : calls[c].stmts[i]


(***************************************************************************)
(* executeInTransaction and close on one adapter                           *)
(* close is called while no statement is in flight and nothing else runs   *)
(* until the engine has closed the database; top-level calls of            *)
(* executeInTransaction are made while no other call is in progress.       *)
(***************************************************************************)
NullHandleThrown == "TypeError: Cannot read properties of null (reading 'run')"

AtRest == \A c \in 1..Len(calls) : calls[c].pc \in {"done", "crashed"}

NoClosePending == \A c \in 1..Len(calls) : calls[c].pc # "closing"

NoStatementInFlight ==
    \A c \in 1..Len(calls) : calls[c].pc \in {"uow", "done", "crashed"}

\* executeInTransaction(fn, callback) called from outside every unit of
\* work, after every earlier call has returned or thrown
ExecuteInTransactionAtRest ==
    /\ Len(calls) < MaxCalls
    /\ AtRest
    /\ LET c == Len(calls) + 1
       IN IF rawConnection # 0
          THEN /\ calls' = Append(calls, AfterOpen(Frame(0)))
               /\ txLog' = Logged(c, AfterOpen(Frame(0)))
               /\ UNCHANGED rawConnection
          ELSE /\ calls' = Append(calls, [Frame(0) EXCEPT !.pc = "open"])
               /\ rawConnection' = 1
               /\ UNCHANGED txLog
    /\ UNCHANGED <<transaction, engineTx>>
    /\ UNCHANGED <<dbVars, exVars>>

\* close(callback): with a handle the close is handed to the engine, without
\* one the callback is invoked at once
Close ==
    /\ Len(calls) < MaxCalls
    /\ NoStatementInFlight
    /\ calls' = Append(calls, IF rawConnection # 0
                              THEN [Frame(0) EXCEPT !.pc = "closing"]
                              ELSE Return(Frame(0), NoError))
    /\ UNCHANGED <<rawConnection, transaction, engineTx, txLog>>
    /\ UNCHANGED <<dbVars, exVars>>

\* the callback of rawConnection.close: the handle is cleared, the marker is
\* not touched; the engine has dropped the transaction of the connection
CloseDone(c) ==
    /\ calls[c].pc = "closing"
    /\ rawConnection' = AfterClose(rawConnection)
    /\ engineTx' = FALSE
    /\ calls' = [calls EXCEPT ![c] = Return(@, NoError)]
    /\ UNCHANGED <<transaction, txLog>>
    /\ UNCHANGED <<dbVars, exVars>>

\* the continuation of a unit of work that began the transaction is invoked
\* after the handle was cleared: self.rawConnection.run throws
UowThrows(c) ==
    /\ InUnitOfWork(c)
    /\ rawConnection = 0 /\ ~calls[c].joined
    /\ calls' = [calls EXCEPT ![c] = [@ EXCEPT !.pc = "crashed", !.err = NullHandleThrown]]
    /\ UNCHANGED <<rawConnection, transaction, engineTx, txLog>>
    /\ UNCHANGED <<dbVars, exVars>>

NextClose ==
    \/ ExecuteInTransactionAtRest
    \/ Close
    \/ \E c \in 1..Len(calls) : CloseDone(c)
    \/ \E c \in 1..Len(calls) : UowThrows(c)
    \/ \E parent \in 1..Len(calls) :
          NoClosePending /\ rawConnection # 0 /\ ExecuteInTransaction(parent)
    \/ \E c \in 1..Len(calls) : NoClosePending /\ OpenDone(c)
    \/ \E c \in 1..Len(calls) : NoClosePending /\ BeginDone(c)
    \/ \E c \in 1..Len(calls) : \E e \in UowErrors(c) :
          NoClosePending /\ (rawConnection # 0 \/ calls[c].joined) /\ UowReturns(c, e)
    \/ \E c \in 1..Len(calls) : NoClosePending /\ RollbackDone(c)
    \/ \E c \in 1..Len(calls) : NoClosePending /\ CommitDone(c)

SpecClose == InitTx /\ [][NextClose]_vars

\* C36: in every reachable state an adapter that holds no connection handle
\* has an inactive transaction marker: after close() completes, including a
\* close issued while a transaction is active, the next executeInTransaction
\* issues BEGIN on the newly opened connection rather than joining a
\* transaction that no longer exists.
C36_NoHandleNoMarker ==
    /\ rawConnection = 0 => ~transaction
    /\ \A c \in 1..Len(calls) : calls[c].joined => Nested(c)

\* the marker is set only while the adapter holds a handle, as long as close
\* is not called
NoHandleNoMarkerWithoutClose == rawConnection = 0 => ~transaction

\* the call made at rest that joined the transaction of a closed connection
StaleJoin ==
    \E c \in 1..Len(calls) : ~Nested(c) /\ calls[c].joined /\ ~engineTx


(***************************************************************************)
(* selectIdentity(entity, attribute, callback), for one (entity, attribute)*)
(* increments holds the rows of increment_id for the pair; calls[c] is the *)
(* frame of call c.  The migrate call that ensures increment_id is one     *)
(* step that succeeds or fails.                                            *)
(***************************************************************************)
MaxIdCalls == 3
MaxAttribute == 1

IdFrame ==
    [pc |-> "migrate", found |-> FALSE, id |-> 0, value |-> 0, err |-> NoError,
     cbCount |-> 0, order |-> 0, overlap |-> FALSE]

\* the number of calls that have invoked their callback
ReturnedCount == Cardinality({c \in 1..Len(calls) : calls[c].pc = "done"})

\* callback.call(self, err, value)
IdReturn(f, err) ==
    [f EXCEPT !.pc = "done", !.err = err, !.cbCount = @ + 1, !.order = ReturnedCount + 1]

\* UPDATE increment_id SET value=? WHERE id=?
UpdatedRow(row, value) == [row EXCEPT !.value = value]

\* selectIdentity is called: migrate(migration, ...) starts
SelectIdentity ==
    /\ Len(calls) < MaxIdCalls
    /\ LET over == \E c \in 1..Len(calls) : calls[c].pc # "done"
       IN calls' = Append([c \in 1..Len(calls) |->
                              IF calls[c].pc # "done"
                              THEN [calls[c] EXCEPT !.overlap = TRUE] ELSE calls[c]],
                          [IdFrame EXCEPT !.overlap = over])
    /\ UNCHANGED <<rawConnection, transaction, engineTx, txLog>>
    /\ UNCHANGED <<rows, returned, connections, views, formatted, increments>>
    /\ UNCHANGED dbVars

\* the callback of migrate: an error is handed on, otherwise the SELECT on
\* increment_id is handed to the engine
IdMigrated(c) ==
    /\ calls[c].pc = "migrate"
    /\ \E fail \in FaultChoices :
        /\ Spend(fail)
        /\ calls' = [calls EXCEPT ![c] = IF fail THEN IdReturn(@, EngineError)
                                         ELSE [@ EXCEPT !.pc = "select"]]
    /\ UNCHANGED <<rawConnection, transaction, engineTx, txLog>>
    /\ UNCHANGED <<rows, returned, connections, views, formatted, increments>>
    /\ UNCHANGED <<tables, hasLedger, ledger, dbIndexes, supportMigrations, run, applied>>

\* SELECT * FROM increment_id WHERE entity=? AND attribute=? answers
IdSelected(c) ==
    /\ calls[c].pc = "select"
    /\ \E fail \in FaultChoices :
        /\ Spend(fail)
        /\ calls' = [calls EXCEPT ![c] =
                        IF fail THEN IdReturn(@, EngineError)
                        ELSE IF Len(increments) = 0 THEN [@ EXCEPT !.pc = "max"]
                        ELSE [@ EXCEPT !.pc = "update", !.found = TRUE,
                                       !.id = increments[1].id,
                                       !.value = increments[1].value + 1]]
    /\ UNCHANGED <<rawConnection, transaction, engineTx, txLog>>
    /\ UNCHANGED <<rows, returned, connections, views, formatted, increments>>
    /\ UNCHANGED <<tables, hasLedger, ledger, dbIndexes, supportMigrations, run, applied>>

\* SELECT MAX(attribute) FROM entity answers with m (0 for NULL)
IdMax(c, m) ==
    /\ calls[c].pc = "max"
    /\ \E fail \in FaultChoices :
        /\ Spend(fail)
        /\ calls' = [calls EXCEPT ![c] =
                        IF fail THEN IdReturn(@, EngineError)
                        ELSE [@ EXCEPT !.pc = "insert", !.value = m + 1]]
    /\ UNCHANGED <<rawConnection, transaction, engineTx, txLog>>
    /\ UNCHANGED <<rows, returned, connections, views, formatted, increments>>
    /\ UNCHANGED <<tables, hasLedger, ledger, dbIndexes, supportMigrations, run, applied>>

\* INSERT INTO increment_id(entity, attribute, value) answers
IdInserted(c) ==
    /\ calls[c].pc = "insert"
    /\ \E fail \in FaultChoices :
        /\ Spend(fail)
        /\ calls' = [calls EXCEPT ![c] = IdReturn(@, IF fail THEN EngineError ELSE NoError)]
        /\ increments' = IF fail THEN increments
                         ELSE Append(increments, [id |-> Len(increments) + 1,
                                                  value |-> calls[c].value])
    /\ UNCHANGED <<rawConnection, transaction, engineTx, txLog>>
    /\ UNCHANGED <<rows, returned, connections, views, formatted>>
    /\ UNCHANGED <<tables, hasLedger, ledger, dbIndexes, supportMigrations, run, applied>>

\* UPDATE increment_id SET value=? WHERE id=? answers
IdUpdated(c) ==
    /\ calls[c].pc = "update"
    /\ \E fail \in FaultChoices :
        /\ Spend(fail)
        /\ calls' = [calls EXCEPT ![c] = IdReturn(@, IF fail THEN EngineError ELSE NoError)]
        /\ increments' = IF fail THEN increments
                         ELSE [i \in 1..Len(increments) |->
                                  IF increments[i].id = calls[c].id
                                  THEN UpdatedRow(increments[i], calls[c].value)
                                  ELSE increments[i]]
    /\ UNCHANGED <<rawConnection, transaction, engineTx, txLog>>
    /\ UNCHANGED <<rows, returned, connections, views, formatted>>
    /\ UNCHANGED <<tables, hasLedger, ledger, dbIndexes, supportMigrations, run, applied>>

NextId ==
    \/ SelectIdentity
    \/ \E c \in 1..Len(calls) : IdMigrated(c)
    \/ \E c \in 1..Len(calls) : IdSelected(c)
    \/ \E c \in 1..Len(calls), m \in 0..MaxAttribute : IdMax(c, m)
    \/ \E c \in 1..Len(calls) : IdInserted(c)
    \/ \E c \in 1..Len(calls) : IdUpdated(c)

SpecId == InitConn /\ [][NextId]_vars

\* the calls that returned a value
Succeeded == {c \in 1..Len(calls) : calls[c].pc = "done" /\ calls[c].err = NoError}

\* d is the successful call that returned next after c
NextAfter(c, d) ==
    /\ calls[c].order < calls[d].order
    /\ \A k \in Succeeded : ~(calls[c].order < calls[k].order /\ calls[k].order < calls[d].order)

\* C37: for a fixed (entity, attribute) the values returned by successful
\* selectIdentity calls on one adapter are pairwise distinct and each is one
\* more than the previously returned value, and increment_id holds at most
\* one row for the pair, also when selectIdentity calls overlap in time.
C37_IdentitiesDistinct ==
    /\ \A c, d \in Succeeded : c # d => calls[c].value # calls[d].value
    /\ \A c, d \in Succeeded : NextAfter(c, d) => calls[d].value = calls[c].value + 1
    /\ Len(increments) <= 1

\* the same for calls made one after the other
SequentialIdentities ==
    (\A c \in 1..Len(calls) : ~calls[c].overlap) =>
        /\ \A c, d \in Succeeded : c # d => calls[c].value # calls[d].value
        /\ \A c, d \in Succeeded : NextAfter(c, d) => calls[d].value = calls[c].value + 1
        /\ Len(increments) <= 1

\* two overlapping calls each inserted a row for the pair
TwoRows == Len(increments) = 2


(***************************************************************************)
(* migrate with index entries that share a name                            *)
(***************************************************************************)
MemoDescriptors ==
    { Descriptor(V20, <<fA, fB>>, <<>>, <<>>,
                 <<Ix("ix1", <<"B">>), Ix("ix1", <<"B">>)>>, {"change", "remove"}),
      Descriptor(V20, <<fA, fB, fC>>, <<>>, <<>>,
                 <<Ix("ix1", <<"A">>), Ix("ix2", <<"B">>)>>, {"change", "remove"}) }

NextMemo ==
    \/ \E p \in Procs, d \in MemoDescriptors : MigrateStart(p, d)
    \/ \E p \in Procs : LedgerExists(p)
    \/ \E p \in Procs : CreateLedger(p)
    \/ \E p \in Procs : Version(p)
    \/ \E p \in Procs : TableExists(p)
    \/ \E p \in Procs : Columns(p)
    \/ \E p \in Procs : CreateTable(p)
    \/ \E p \in Procs : Alter(p)
    \/ \E p \in Procs : IxList(p)
    \/ \E p \in Procs : IxInfo(p)
    \/ \E p \in Procs : IxCreate(p)
    \/ \E p \in Procs : IxDropList(p)
    \/ \E p \in Procs : Insert(p)

SpecMemo == Init /\ [][NextMemo]_vars

\* what list() would read from the engine now: the created indexes of t
LiveList(t) ==
    LET found == SelectSeq(IndexesOf(dbIndexes, t), Created)
    IN [i \in 1..Len(found) |-> [name |-> found[i].name, columns |-> found[i].columns]]

\* the number of CREATE INDEX statements the call issued for name
CreatesOf(r, name) ==
    Cardinality({i \in 1..Len(r.issued) : r.issued[i] = Stmt("CREATE INDEX", name)})

\* C38: on one indexes(table) handle the memoized index list always equals
\* the table's live set of user-created indexes: after create() or drop()
\* through that handle has changed an index, list() on the same handle
\* reflects the change, so that reconciling two index entries of the same
\* name in one migrate run issues CREATE INDEX for that name at most once.
C38_MemoIsLive ==
    \A p \in Procs :
        (run[p].op = "migrate" /\ ~run[p].overlap) =>
            /\ run[p].memo.has => run[p].memo.list = LiveList(run[p].table)
            /\ \A name \in IndexNames : CreatesOf(run[p], name) <= 1

\* the second half of C38 on its own
CreateIndexAtMostOnce ==
    \A p \in Procs :
        (run[p].op = "migrate" /\ ~run[p].overlap) =>
            \A name \in IndexNames : CreatesOf(run[p], name) <= 1

\* the list is memoized as the engine holds it: it equals the live list
\* until the handle creates an index
MemoFreshUntilCreate ==
    \A p \in Procs :
        (run[p].op = "migrate" /\ ~run[p].overlap /\ run[p].memo.has
            /\ CountOp(run[p], "CREATE INDEX") = 0) =>
                run[p].memo.list = LiveList(run[p].table)


(***************************************************************************)
(* The ledger and the live version over sequences of migrate calls         *)
(* Versions are ordered as table.version and migrate order them: as texts. *)
(***************************************************************************)
\* every row the ledger held is still there, unchanged and in its place
LedgerKept == IsPrefix(ledger, ledger')

\* what table(t).version returns does not go back
VersionKept ==
    \A t \in TableNames : ~StrLess(version(ledger', t), version(ledger, t))

\* call p returns in this step
ReturnsNow(p) == run[p].pc # "done" /\ run'[p].pc = "done" /\ run'[p].op = "migrate"

\* the descriptor of the call was not above the live version when it started
NotAbove(r) == ~StrLess(version(r.ledger0, r.table), r.given.version)

\* a call that ran alone with a version not above the live one returns with
\* the ledger, the table and the indexes as it found them
SkippedUnchanged ==
    \A p \in Procs :
        (ReturnsNow(p) /\ ~run'[p].overlap /\ NotAbove(run'[p])) =>
            /\ ledger' = run'[p].ledger0
            /\ tables'[run'[p].table] = run'[p].live0
            /\ dbIndexes' = run'[p].ix0
            /\ \A i \in 1..Len(run'[p].issued) : run'[p].issued[i].op \notin DDLOps

LedgerGrew ==
    \E p \in Procs :
        /\ Finished(run[p]) /\ ~run[p].overlap /\ run[p].err = NoError
        /\ Len(run[p].ledger0) = 1 /\ Len(ledger) = 2
        /\ IsPrefix(run[p].ledger0, ledger)
        /\ ledger[2].version = run[p].given.version


(***************************************************************************)
(* executeInTransaction with an engine that answers every statement and    *)
(* units of work that invoke their continuation                            *)
(***************************************************************************)
\* the engine answers what call c has handed to it
Answer(c) ==
    /\ c \in 1..Len(calls)
    /\ (OpenDone(c) \/ BeginDone(c) \/ RollbackDone(c) \/ CommitDone(c))

\* the unit of work of call c invokes its continuation
Continue(c) ==
    /\ c \in 1..Len(calls)
    /\ \E e \in UowErrors(c) : UowReturns(c, e)

SpecTxLive ==
    /\ InitTx
    /\ [][NextTx]_vars
    /\ \A c \in 1..MaxCalls : WF_vars(Answer(c)) /\ WF_vars(Continue(c))

\* the callback of a call has been invoked once when the call is over and
\* not at all before
CallbackCounted ==
    \A c \in 1..Len(calls) :
        calls[c].cbCount = IF calls[c].pc = "done" THEN 1 ELSE 0

\* call c has been made / its callback has been invoked
Called(c) == c \in 1..Len(calls)

CalledBack(c) == c \in 1..Len(calls) /\ calls[c].pc = "done"

\* C40: every executeInTransaction call eventually invokes its callback, and
\* invokes it exactly once, provided the engine answers every statement and
\* the unit of work invokes its continuation exactly once; this holds on the
\* BEGIN-failure, commit, rollback and joined (already active) paths.
C40_CallbackOnce ==
    /\ [](CallbackCounted)
    /\ \A c \in 1..MaxCalls : Called(c) ~> CalledBack(c)

\* four calls have returned, one on each path: BEGIN refused, committed,
\* rolled back, joined
C40_Witness ==
    /\ Len(calls) = 4 /\ AllReturned /\ CallbackCounted
    /\ \E a, b, c, d \in 1..Len(calls) :
        /\ IssuedBy(a, "BEGIN") = 1
        /\ IssuedBy(a, "COMMIT") + IssuedBy(a, "ROLLBACK") = 0
        /\ calls[a].err = EngineError
        /\ IssuedBy(b, "COMMIT") = 1
        /\ IssuedBy(c, "ROLLBACK") = 1
        /\ calls[d].joined

====
